---- MODULE Spec2Model ----
(***************************************************************************)
(* A model of the TMS backend's data-access layer: the per-request user    *)
(* batch loader (utils/dataloader.ts), the access guard (utils/auth.ts),   *)
(* the pagination helpers (utils/pagination.ts) and the GraphQL resolvers  *)
(* (graphql/resolvers/*.ts), and the request handler (api/index.ts).       *)
(*                                                                         *)
(* The module holds several specifications over one set of variables:      *)
(*   SpecLoader  one DataLoader instance over the user collection          *)
(*   SpecGuard   requireAuth / requireAdmin / requireRole                  *)
(*   SpecPage    the paging arithmetic of the shipments query              *)
(*   SpecCursor  encodeCursor and decodeCursor over identifier texts       *)
(*   SpecQuery   the filter, sort and storage operations of the query      *)
(*   SpecOps     the guarded resolvers acting on the stored records        *)
(*   SpecServer  the request handler: lazy connection, context per request *)
(* Each specification leaves the variables of the others at their idle     *)
(* value.                                                                  *)
(***************************************************************************)
EXTENDS Integers, Sequences, FiniteSets, TLC

VARIABLES
    users,      \* the user collection, in storage order: Seq of user documents
    cache,      \* DataLoader._cacheMap: key -> index into promises (0: absent)
    promises,   \* the promises load() has created
    batches,    \* the batches the loader has created
    calls,      \* every load() call made: the key and the promise it returned
    fetches,    \* every User.find the batch function has issued
    tick,       \* the number of ticks (synchronous sections) that have ended
    guard,      \* SpecGuard: the context, the allowed roles and the last outcome
    pageReq,    \* SpecPage: the arguments of one shipments query
    pageRes,    \* SpecPage: what the query passed to storage and returned
    shipments,  \* the shipment collection: id -> document
    now,        \* the clock read by new Date()
    opCount,    \* SpecOps: the number of resolver calls made
    created,    \* SpecOps: the number of shipments createShipment has saved
    lastOp,     \* SpecOps: the last resolver call and its outcome
    isConnected,\* api/index.ts: the flag connectDB sets after a connect
    connects,   \* the number of mongoose.connect calls connectDB has made
    requests,   \* SpecServer: the inbound requests, their position and loads
    loaders     \* SpecServer: the cache of every loader a context holds

loaderVars == <<cache, promises, batches, calls, fetches, tick>>
vars == <<users, cache, promises, batches, calls, fetches, tick, guard,
          pageReq, pageRes, shipments, now, opCount, created, lastOp,
          isConnected, connects, requests, loaders>>

---------------------------------------------------------------------------
(* Bounds *)

MaxLoads == 3       \* load() calls made on the loader instance
MaxOps == 2         \* resolver calls made in SpecOps
MaxCreate == 1      \* shipments created in SpecOps
NegArgs == 2        \* how far below zero the page and limit arguments go
SmallArgs == 3      \* the small page sizes requested
OverMax == 2        \* how far above MAX_PAGE_SIZE the requested sizes go
MaxPage == 4        \* the page numbers requested
MaxTotal == 6       \* the small numbers of matching documents
MaxIdLen == 3       \* the length of the identifier texts given cursors
MaxFields == 2      \* the number of fields given in a filter
MaxRequests == 2    \* the requests the handler receives in SpecServer
MaxReqLoads == 2    \* the loads the resolvers of one request make

---------------------------------------------------------------------------
(* Values *)

Range(s) == {s[i] : i \in DOMAIN s}

UserIds == {"A", "B", "C"}
Roles == {"ADMIN", "EMPLOYEE"}

\* JavaScript null / undefined for a number or a string argument.
NULL == "null"

\* A user document. The role a fresh account gets is EMPLOYEE.
UserDoc(id, role) ==
    [_id |-> id, role |-> role, isActive |-> TRUE, firstName |-> "n"]

\* The null a load of an unknown identifier resolves to.
NullUser == [_id |-> NULL]

IsInjective(s) == \A i, j \in DOMAIN s : s[i] = s[j] => i = j

\* The accounts that may be stored; the other identifiers are unknown.
StoredIds == {"A", "B"}

\* Every list of stored identifiers without repetition: the contents and the
\* storage orders of the user collection.
KeyLists == {s \in UNION {[1..n -> StoredIds] : n \in 0..Cardinality(StoredIds)} :
                IsInjective(s)}

IdleGuard == [phase |-> "idle"]
IdlePageReq == [phase |-> "idle"]
IdlePageRes == [code |-> "idle"]
IdleLastOp == [code |-> "idle"]

\* The server variables outside SpecServer: no request was received.
IdleServer ==
    /\ isConnected = FALSE
    /\ connects = 0
    /\ requests = <<>>
    /\ loaders = <<>>

---------------------------------------------------------------------------
(* The batch loader: utils/dataloader.ts over the dataloader package *)

\* The failures a storage operation can end with.
Errs == {"E1", "E2"}

\* User.find({ _id: { $in: userIds } }): the stored documents whose _id is
\* among the keys, in storage order (not in the order of the keys).
UserFind(userIds) ==
    SelectSeq(users, LAMBDA u : u._id \in Range(userIds))

\* new Map(users.map(user => [user._id.toString(), user])): a later entry of
\* the same key replaces an earlier one.
userMap(found) ==
    [id \in {found[i]._id : i \in DOMAIN found} |->
        found[CHOOSE i \in DOMAIN found :
                /\ found[i]._id = id
                /\ \A j \in DOMAIN found : found[j]._id = id => j <= i]]

\* A defect: the documents are returned as storage gave them.
batchUsers_unordered(userIds, found) == found

\* batchUsers, after its await: userIds.map(id => userMap.get(id) || null).
batchUsers(userIds, found) ==
    [i \in 1..Len(userIds) |->
        IF userIds[i] \in DOMAIN userMap(found)
        THEN userMap(found)[userIds[i]]
        ELSE NullUser]

\* A defect: the loader is created with cache: false.
cacheLookup_off(k) == 0

\* cacheMap.get(cacheKeyFn(key)): the cached promise of a key, 0 when none.
\* cacheKeyFn is key.toString(), the identity on the string keys used here.
cacheLookup(k) == cache[k]

\* The value standing for "no batch is collecting".
NoBatch == 0

\* A defect: every load opens a batch of its own.
currentBatch_none == NoBatch

\* A defect: a load joins the latest batch even after its dispatch.
currentBatch_latest == IF batches = <<>> THEN NoBatch ELSE Len(batches)

\* getCurrentBatch: the batch still collecting keys, 0 when a new one is due.
currentBatch ==
    IF \E b \in DOMAIN batches : batches[b].status = "collecting"
    THEN CHOOSE b \in DOMAIN batches : batches[b].status = "collecting"
    ELSE NoBatch

\* loader.load(key)
Load(k) ==
    /\ Len(calls) < MaxLoads
    /\ LET p == cacheLookup(k) IN
       IF p # 0
       THEN /\ calls' = Append(calls, [key |-> k, promise |-> p, tick |-> tick])
            /\ UNCHANGED <<cache, promises, batches>>
       ELSE LET b == IF currentBatch # NoBatch THEN currentBatch ELSE Len(batches) + 1
                np == Len(promises) + 1
            IN /\ batches' =
                    IF currentBatch # NoBatch
                    THEN [batches EXCEPT ![b].keys = Append(@, k)]
                    ELSE Append(batches,
                                [keys |-> <<k>>, status |-> "collecting", error |-> ""])
               /\ promises' = Append(promises,
                    [key |-> k, batch |-> b, state |-> "pending",
                     value |-> NullUser, error |-> ""])
               /\ cache' = [cache EXCEPT ![k] = np]
               /\ calls' = Append(calls, [key |-> k, promise |-> np, tick |-> tick])
    /\ UNCHANGED <<users, fetches, tick>>

\* The batches whose dispatch job is due when the running tick ends.
collecting == {b \in DOMAIN batches : batches[b].status = "collecting"}

\* How many of the batches before b are being dispatched with it.
dispatchRank(b) == Cardinality({c \in collecting : c < b})

\* The end of a tick, the synchronous section in which resolvers call load:
\* the dispatch job of each collecting batch runs (dispatchBatch), and the
\* batch function issues one User.find with the keys the batch collected.
\* Ticks in which the loader was not used are not counted.
EndTick ==
    /\ \E c \in DOMAIN calls : calls[c].tick = tick
    /\ batches' = [b \in DOMAIN batches |->
                     IF b \in collecting
                     THEN [batches[b] EXCEPT !.status = "dispatched"]
                     ELSE batches[b]]
    /\ fetches' = fetches \o
         [n \in 1..Cardinality(collecting) |->
            LET b == CHOOSE c \in collecting : dispatchRank(c) = n - 1
            IN [batch |-> b, keys |-> batches[b].keys, tick |-> tick]]
    /\ tick' = tick + 1
    /\ UNCHANGED <<users, cache, promises, calls>>

\* A defect: only the first caller of the batch is rejected.
failedDispatchPromises_first(b, e) ==
    [i \in DOMAIN promises |->
        IF promises[i].batch = b /\ promises[i].key = batches[b].keys[1]
        THEN [promises[i] EXCEPT !.state = "rejected", !.error = e]
        ELSE promises[i]]

\* failedDispatch: every callback of the batch is rejected with the error.
failedDispatchPromises(b, e) ==
    [i \in DOMAIN promises |->
        IF promises[i].batch = b
        THEN [promises[i] EXCEPT !.state = "rejected", !.error = e]
        ELSE promises[i]]

\* failedDispatch: loader.clear(key) for every key of the batch.
failedDispatchCache(b) ==
    [k \in UserIds |-> IF k \in Range(batches[b].keys) THEN 0 ELSE cache[k]]

\* The batch function's promise resolved: each callback gets its value; a
\* result list of another length than the key list fails the whole batch.
\* An I/O completion runs in a tick of its own, after the dispatch jobs of
\* the tick before it: what the resumed resolvers load belongs to a new tick.
FetchSucceed(b) ==
    /\ batches[b].status = "dispatched"
    /\ collecting = {}
    /\ tick' = tick + 1
    /\ LET keys == batches[b].keys
           values == batchUsers(keys, UserFind(keys))
       IN IF Len(values) # Len(keys)
          THEN /\ promises' = failedDispatchPromises(b, "TypeError")
               /\ cache' = failedDispatchCache(b)
               /\ batches' = [batches EXCEPT ![b].status = "failed",
                                             ![b].error = "TypeError"]
          ELSE /\ promises' =
                    [i \in DOMAIN promises |->
                        IF promises[i].batch = b
                        THEN [promises[i] EXCEPT
                                !.state = "resolved",
                                !.value = values[CHOOSE j \in DOMAIN keys :
                                                    keys[j] = promises[i].key]]
                        ELSE promises[i]]
               /\ cache' = cache
               /\ batches' = [batches EXCEPT ![b].status = "done"]
    /\ UNCHANGED <<users, calls, fetches>>

\* User.find rejected: batchUsers rejects, and the loader fails the batch.
FetchFail(b, e) ==
    /\ batches[b].status = "dispatched"
    /\ collecting = {}
    /\ tick' = tick + 1
    /\ promises' = failedDispatchPromises(b, e)
    /\ cache' = failedDispatchCache(b)
    /\ batches' = [batches EXCEPT ![b].status = "failed", ![b].error = e]
    /\ UNCHANGED <<users, calls, fetches>>

otherThanLoader ==
    <<guard, pageReq, pageRes, shipments, now, opCount, created, lastOp,
          isConnected, connects, requests, loaders>>

\* createLoaders(): a fresh loader, over any stored user collection.
InitLoader ==
    /\ users \in {[i \in DOMAIN ks |-> UserDoc(ks[i], "EMPLOYEE")] : ks \in KeyLists}
    /\ cache = [k \in UserIds |-> 0]
    /\ promises = <<>>
    /\ batches = <<>>
    /\ calls = <<>>
    /\ fetches = <<>>
    /\ tick = 0
    /\ guard = IdleGuard
    /\ pageReq = IdlePageReq
    /\ pageRes = IdlePageRes
    /\ shipments = <<>>
    /\ now = 0
    /\ opCount = 0
    /\ created = 0
    /\ lastOp = IdleLastOp
    /\ IdleServer

LoadStep == \E k \in UserIds : Load(k) /\ UNCHANGED otherThanLoader
EndTickStep == EndTick /\ UNCHANGED otherThanLoader
FetchSucceedStep == \E b \in DOMAIN batches : FetchSucceed(b) /\ UNCHANGED otherThanLoader
FetchFailStep ==
    \E b \in DOMAIN batches, e \in Errs : FetchFail(b, e) /\ UNCHANGED otherThanLoader

NextLoader == LoadStep \/ EndTickStep \/ FetchSucceedStep \/ FetchFailStep

SpecLoader == InitLoader /\ [][NextLoader]_vars

---------------------------------------------------------------------------
(* Claims about the batch loader, checked under SpecLoader *)

\* The outcome a caller of load() observes: that of the promise it was given.
Outcome(c) == promises[calls[c].promise]

\* The calls made in tick t that found no cached promise (the first call to
\* return its promise was made in tick t).
FreshCalls(t) ==
    {c \in DOMAIN calls :
        /\ calls[c].tick = t
        /\ \A d \in DOMAIN calls :
              calls[d].promise = calls[c].promise => calls[d].tick >= t}

FetchesOf(t) == {f \in DOMAIN fetches : fetches[f].tick = t}

\* C1: the loads made in one tick are coalesced. For every tick that has
\* ended, the loads of that tick that were not served from the cache caused
\* exactly one User.find, whose key list holds each of their keys once (a
\* tick without such loads caused none); and two loads of the same key in one
\* tick were given the same promise, hence the same value. So load(A),
\* load(B), load(A) in the first tick give one fetch of <<A, B>>.
C1_LoadsOfOneTickCoalesce ==
    /\ \A t \in 0..(tick - 1) :
          /\ Cardinality(FetchesOf(t)) = IF FreshCalls(t) = {} THEN 0 ELSE 1
          /\ \A f \in FetchesOf(t) :
                /\ IsInjective(fetches[f].keys)
                /\ Range(fetches[f].keys) = {calls[c].key : c \in FreshCalls(t)}
    /\ \A c, d \in DOMAIN calls :
          (calls[c].tick = calls[d].tick /\ calls[c].key = calls[d].key)
              => /\ calls[c].promise = calls[d].promise
                 /\ Outcome(c) = Outcome(d)
    /\ (/\ tick >= 1
        /\ {c \in DOMAIN calls : calls[c].tick = 0} = 1..3
        /\ <<calls[1].key, calls[2].key, calls[3].key>> = <<"A", "B", "A">>)
          => /\ FetchesOf(0) = {1}
             /\ fetches[1].keys = <<"A", "B">>

\* C1 witness: load(A), load(B), load(A) in the first tick, one fetch of
\* <<A, B>>, and both loads of A resolved to the same stored document.
C1_Witness ==
    /\ Len(calls) = 3
    /\ <<calls[1].key, calls[2].key, calls[3].key>> = <<"A", "B", "A">>
    /\ \A c \in 1..3 : calls[c].tick = 0
    /\ Len(fetches) = 1
    /\ fetches[1].keys = <<"A", "B">>
    /\ Outcome(1).state = "resolved"
    /\ Outcome(1).value._id = "A"
    /\ Outcome(3) = Outcome(1)

FetchesWith(k) == {f \in DOMAIN fetches : k \in Range(fetches[f].keys)}

\* C2 as claimed: over the loader's lifetime every identifier is part of at
\* most one User.find.
C2_AtMostOneFetchPerKey ==
    \A k \in UserIds : Cardinality(FetchesWith(k)) <= 1

\* C2 as amended: every identifier is part of at most one User.find that has
\* not failed (a failed batch evicts its keys, so a later load fetches them
\* again); and a load of a key whose earlier promise has not been rejected is
\* given that same promise, found or not found, without a new fetch.
C2_AtMostOneUnfailedFetchPerKey ==
    /\ \A k \in UserIds :
          Cardinality({f \in FetchesWith(k) :
                          batches[fetches[f].batch].status # "failed"}) <= 1
    /\ \A c, d \in DOMAIN calls :
          (c < d /\ calls[c].key = calls[d].key /\ Outcome(c).state # "rejected")
              => calls[d].promise = calls[c].promise
    /\ \A k \in UserIds :
          Cardinality({i \in DOMAIN promises :
                          promises[i].key = k /\ promises[i].state # "rejected"}) <= 1

\* C2 witness: a key that resolved to not-found is loaded again in a later
\* tick and served from the cache: two loads, one fetch.
C2_Witness ==
    \E c, d \in DOMAIN calls :
        /\ calls[c].tick < calls[d].tick
        /\ calls[c].key = calls[d].key
        /\ calls[c].promise = calls[d].promise
        /\ Outcome(d).state = "resolved"
        /\ Outcome(d).value = NullUser
        /\ Cardinality(FetchesWith(calls[c].key)) = 1

\* C3: a failed User.find fails its whole batch. Every load of a failed batch
\* is rejected with the batch's one error and none holds a value; the loads
\* of any batch are all pending, all resolved or all rejected together; and
\* every dispatched batch issued exactly one User.find (no retry).
C3_FailedBatchRejectsAll ==
    /\ \A b \in DOMAIN batches :
          batches[b].status = "failed" =>
             \A i \in DOMAIN promises :
                promises[i].batch = b =>
                   /\ promises[i].state = "rejected"
                   /\ promises[i].error = batches[b].error
                   /\ promises[i].value = NullUser
    /\ \A i, j \in DOMAIN promises :
          promises[i].batch = promises[j].batch =>
             /\ promises[i].state = promises[j].state
             /\ promises[i].error = promises[j].error
    /\ \A b \in DOMAIN batches :
          Cardinality({f \in DOMAIN fetches : fetches[f].batch = b})
             = IF batches[b].status = "collecting" THEN 0 ELSE 1

\* C3 witness: a batch of two keys whose fetch failed, both callers rejected
\* with the same error.
C3_Witness ==
    \E b \in DOMAIN batches :
        /\ batches[b].status = "failed"
        /\ Len(batches[b].keys) = 2
        /\ \E c, d \in DOMAIN calls :
              /\ calls[c].key # calls[d].key
              /\ Outcome(c).batch = b /\ Outcome(d).batch = b
              /\ Outcome(c).state = "rejected" /\ Outcome(d).state = "rejected"
              /\ Outcome(c).error = "E2" /\ Outcome(d).error = "E2"

\* The stored document of an identifier, or the not-found value.
StoredUser(id) ==
    IF \E i \in DOMAIN users : users[i]._id = id
    THEN users[CHOOSE i \in DOMAIN users : users[i]._id = id]
    ELSE NullUser

\* C4: for every key list the loader collects, the batch function answers
\* with a list of the same length whose entry i is the stored user of key i,
\* or null when there is none; so in every batch whose fetch succeeded each
\* load holds the stored user of its key or null, and no batch fails over an
\* unknown identifier.
C4_BatchResultsAlignWithKeys ==
    /\ \A b \in DOMAIN batches :
          LET ks == batches[b].keys
              r == batchUsers(ks, UserFind(ks))
          IN /\ DOMAIN r = 1..Len(ks)
             /\ \A i \in 1..Len(ks) : r[i] = StoredUser(ks[i])
    /\ \A i \in DOMAIN promises :
          batches[promises[i].batch].status = "done" =>
             /\ promises[i].state = "resolved"
             /\ promises[i].value = StoredUser(promises[i].key)
    /\ \A b \in DOMAIN batches : batches[b].error # "TypeError"

\* C4 witness: one batch asked for a stored and an unknown identifier, against
\* the storage order; the stored one resolved to its document, the unknown one
\* to null.
C4_Witness ==
    \E b \in DOMAIN batches :
        /\ batches[b].status = "done"
        /\ batches[b].keys = <<"A", "C", "B">>
        /\ users = <<UserDoc("B", "EMPLOYEE"), UserDoc("A", "EMPLOYEE")>>
        /\ \E c, d \in DOMAIN calls :
              /\ calls[c].key = "C" /\ Outcome(c).batch = b
              /\ Outcome(c).state = "resolved" /\ Outcome(c).value = NullUser
              /\ calls[d].key = "A" /\ Outcome(d).batch = b
              /\ Outcome(d).value = UserDoc("A", "EMPLOYEE")

\* The call is the first to have been given its promise: load() found no
\* cached promise for its key.
IsFresh(c) == \A d \in 1..(c - 1) : calls[d].promise # calls[c].promise

\* The batch a call's promise belongs to.
BatchOf(c) == promises[calls[c].promise].batch

\* What C20 says of every load made after a batch was dispatched, apart from
\* the loads of an identifier requested before: the dispatched batch is not
\* added to, the load's batch is another one with a fetch of its own, and the
\* outcome of every promise is that of its own batch alone.
LateLoadsAreIndependent ==
    /\ \A f \in DOMAIN fetches : fetches[f].keys = batches[fetches[f].batch].keys
    /\ \A c \in DOMAIN calls, f \in DOMAIN fetches :
          (fetches[f].tick < calls[c].tick /\ IsFresh(c)) =>
              /\ BatchOf(c) # fetches[f].batch
              /\ calls[c].key \in Range(batches[BatchOf(c)].keys)
              /\ \A g \in DOMAIN fetches :
                    fetches[g].batch = BatchOf(c) =>
                        fetches[g].tick >= calls[c].tick
    /\ \A f, g \in DOMAIN fetches : fetches[f].batch = fetches[g].batch => f = g
    /\ \A p \in DOMAIN promises :
          LET b == batches[promises[p].batch] IN
          /\ promises[p].state = "resolved" <=> b.status = "done"
          /\ promises[p].state = "rejected" <=> b.status = "failed"
          /\ promises[p].state = "rejected" => promises[p].error = b.error

\* C20 as claimed: a load made after a batch was dispatched starts a new,
\* independent batch with its own fetch, unless its identifier was requested
\* before, in which case it is given the promise of an earlier load and causes
\* no new fetch.
C20_RequestedKeyNeverFetchedAgain ==
    /\ LateLoadsAreIndependent
    /\ \A c, d \in DOMAIN calls :
          (d < c /\ calls[d].key = calls[c].key) => ~IsFresh(c)

\* C20 as amended: a load made after a batch was dispatched starts a new,
\* independent batch with its own fetch, unless its identifier was requested
\* before by a load that has not failed, in which case it is given the promise
\* of an earlier load and causes no new fetch.  (A failed batch evicts its
\* identifiers, and the next load of one of them is fetched anew.)
C20_LateLoadStartsNewBatch ==
    /\ LateLoadsAreIndependent
    /\ \A c, d \in DOMAIN calls :
          (d < c /\ calls[d].key = calls[c].key) =>
              \/ ~IsFresh(c)
              \/ \A e \in 1..(c - 1) :
                    calls[e].key = calls[c].key =>
                        promises[calls[e].promise].state = "rejected"

\* C20 witness: B was loaded after the batch of A had been dispatched and had
\* failed; B got a second batch with a fetch of its own, and resolved to the
\* stored document although the first batch failed.
C20_Witness ==
    /\ Len(calls) >= 2
    /\ calls[1].key = "A" /\ calls[2].key = "B"
    /\ Len(fetches) = 2
    /\ fetches[1].tick < calls[2].tick
    /\ fetches[1].keys = <<"A">> /\ fetches[2].keys = <<"B">>
    /\ batches[1].status = "failed"
    /\ batches[2].status = "done"
    /\ Outcome(1).state = "rejected"
    /\ Outcome(2).state = "resolved"
    /\ Outcome(2).value._id = "B"

---------------------------------------------------------------------------
(* The access guard: utils/auth.ts *)

\* context.user of an anonymous request (verifyToken gave null, or no token).
NoUser == [userId |-> NULL, role |-> NULL]

\* The request contexts: anonymous, or the verified payload of a token.
Contexts ==
    {[user |-> NoUser]} \cup
    {[user |-> [userId |-> u, role |-> r]] : u \in UserIds, r \in Roles}

\* What a check ends with: the identity it returns, or the GraphQLError code.
Returned(user) == [ok |-> TRUE, code |-> "OK", user |-> user]
Thrown(code) == [ok |-> FALSE, code |-> code, user |-> NoUser]

requireAuth(context) ==
    IF context.user = NoUser
    THEN Thrown("UNAUTHENTICATED")
    ELSE Returned(context.user)

\* A defect: the role is not checked.
requireAdmin_authOnly(context) == requireAuth(context)

requireAdmin(context) ==
    LET r == requireAuth(context) IN
    IF ~r.ok THEN r
    ELSE IF r.user.role # "ADMIN" THEN Thrown("FORBIDDEN")
    ELSE Returned(r.user)

requireRole(context, roles) ==
    LET r == requireAuth(context) IN
    IF ~r.ok THEN r
    ELSE IF r.user.role \notin roles THEN Thrown("FORBIDDEN")
    ELSE Returned(r.user)

IdleLoader ==
    /\ users = <<>>
    /\ cache = [k \in UserIds |-> 0]
    /\ promises = <<>>
    /\ batches = <<>>
    /\ calls = <<>>
    /\ fetches = <<>>
    /\ tick = 0

\* Any context and any list of allowed roles, before a check is called.
InitGuard ==
    /\ IdleLoader
    /\ guard \in {[phase |-> "start", context |-> c, roles |-> rs,
                   check |-> "none", result |-> Thrown("none")] :
                     c \in Contexts, rs \in SUBSET Roles}
    /\ pageReq = IdlePageReq
    /\ pageRes = IdlePageRes
    /\ shipments = <<>>
    /\ now = 0
    /\ opCount = 0
    /\ created = 0
    /\ lastOp = IdleLastOp
    /\ IdleServer

otherThanGuard == <<users, cache, promises, batches, calls, fetches, tick,
                    pageReq, pageRes, shipments, now, opCount, created, lastOp,
          isConnected, connects, requests, loaders>>

CallRequireAuth ==
    /\ guard.phase = "start"
    /\ guard' = [guard EXCEPT !.phase = "done", !.check = "requireAuth",
                              !.result = requireAuth(guard.context)]
    /\ UNCHANGED otherThanGuard

CallRequireAdmin ==
    /\ guard.phase = "start"
    /\ guard' = [guard EXCEPT !.phase = "done", !.check = "requireAdmin",
                              !.result = requireAdmin(guard.context)]
    /\ UNCHANGED otherThanGuard

CallRequireRole ==
    /\ guard.phase = "start"
    /\ guard' = [guard EXCEPT !.phase = "done", !.check = "requireRole",
                              !.result = requireRole(guard.context, guard.roles)]
    /\ UNCHANGED otherThanGuard

NextGuard == CallRequireAuth \/ CallRequireAdmin \/ CallRequireRole

SpecGuard == InitGuard /\ [][NextGuard]_vars

\* C6: requireAuth throws UNAUTHENTICATED exactly when the context holds no
\* identity and otherwise returns it. requireRole and requireAdmin throw
\* UNAUTHENTICATED (never FORBIDDEN) for a context without identity, FORBIDDEN
\* when the identity's role is not allowed (for requireAdmin: is not ADMIN),
\* and otherwise return the identity. On every context requireAdmin ends as
\* requireRole with the allowed roles {ADMIN} does.
C6_GuardOutcomes ==
    guard.phase = "done" =>
        LET anonymous == guard.context.user = NoUser
            allowed == IF guard.check = "requireAdmin" THEN {"ADMIN"}
                       ELSE IF guard.check = "requireRole" THEN guard.roles
                       ELSE Roles
            res == guard.result
        IN /\ anonymous => (~res.ok /\ res.code = "UNAUTHENTICATED")
           /\ (~anonymous /\ guard.context.user.role \notin allowed)
                 => (~res.ok /\ res.code = "FORBIDDEN")
           /\ (~anonymous /\ guard.context.user.role \in allowed)
                 => (res.ok /\ res.user = guard.context.user)
           /\ (guard.check = "requireAuth" /\ res.code = "UNAUTHENTICATED")
                 => anonymous
           /\ requireAdmin(guard.context) = requireRole(guard.context, {"ADMIN"})

\* C6 witness: requireRole on a context of role EMPLOYEE with {ADMIN} allowed
\* ended with FORBIDDEN.
C6_Witness ==
    /\ guard.phase = "done"
    /\ guard.check = "requireRole"
    /\ guard.context.user.role = "EMPLOYEE"
    /\ guard.roles = {"ADMIN"}
    /\ guard.result.code = "FORBIDDEN"

---------------------------------------------------------------------------
(* Pagination: utils/pagination.ts and the paging of Query.shipments *)

DEFAULT_PAGE_SIZE == 20
MAX_PAGE_SIZE == 100

\* An optional number argument: Undef when the argument is omitted (or null),
\* Num(n) when it is given.
Undef == <<>>
Num(n) == <<n>>

\* JavaScript truthiness of an optional number: undefined, null and 0 are falsy.
Falsy(x) == x = Undef \/ x[1] = 0

\* a || b
OrElse(a, b) == IF Falsy(a) THEN b ELSE a

Min(a, b) == IF a <= b THEN a ELSE b
Max(a, b) == IF a >= b THEN a ELSE b

normalizeLimit(limit) ==
    IF Falsy(limit) THEN DEFAULT_PAGE_SIZE
    ELSE Min(Max(1, limit[1]), MAX_PAGE_SIZE)

\* A defect: the page number is not floored at 1.
calculateOffset_noFloor(page, limit) == (page - 1) * limit

calculateOffset(page, limit) == (Max(1, page) - 1) * limit

\* A defect: the quotient is rounded down.
MathCeilDiv_floor(a, b) == a \div b

\* Math.ceil(a / b) for a >= 0 and b >= 1.
MathCeilDiv(a, b) == IF a % b = 0 THEN a \div b ELSE (a \div b) + 1

\* The bytes Buffer.from(id) holds for a text: its UTF-8 encoding, one byte
\* for a character below 128 and two bytes for a character below 2048.  The
\* characters of a hexadecimal ObjectId are all below 128.
RECURSIVE Utf8Bytes(_)
Utf8Bytes(id) ==
    IF Len(id) = 0 THEN <<>>
    ELSE (IF id[1] < 128 THEN <<id[1]>>
          ELSE <<192 + (id[1] \div 64), 128 + (id[1] % 64)>>)
         \o Utf8Bytes(Tail(id))

\* The replacement character U+FFFD, decoded from a malformed byte.
Replacement == 65533

\* Buffer.toString('utf8'): the characters of one- and two-byte sequences.
RECURSIVE Utf8String(_)
Utf8String(bytes) ==
    IF Len(bytes) = 0 THEN <<>>
    ELSE IF bytes[1] < 128
    THEN <<bytes[1]>> \o Utf8String(Tail(bytes))
    ELSE IF /\ bytes[1] \in 194..223
            /\ Len(bytes) >= 2
            /\ bytes[2] \in 128..191
    THEN <<(bytes[1] - 192) * 64 + (bytes[2] - 128)>>
         \o Utf8String(SubSeq(bytes, 3, Len(bytes)))
    ELSE <<Replacement>> \o Utf8String(Tail(bytes))

\* The padding symbol '=' of base64; the symbols of the alphabet are 0..63.
Pad == 64

\* Buffer.toString('base64'): 3 bytes give 4 symbols; a last group of 1 byte
\* gives 2 symbols and 2 paddings, a last group of 2 bytes gives 3 symbols and
\* 1 padding.
RECURSIVE Base64Encode(_)
Base64Encode(bytes) ==
    IF Len(bytes) = 0 THEN <<>>
    ELSE IF Len(bytes) = 1
    THEN <<bytes[1] \div 4, (bytes[1] % 4) * 16, Pad, Pad>>
    ELSE IF Len(bytes) = 2
    THEN <<bytes[1] \div 4,
           (bytes[1] % 4) * 16 + (bytes[2] \div 16),
           (bytes[2] % 16) * 4,
           Pad>>
    ELSE <<bytes[1] \div 4,
           (bytes[1] % 4) * 16 + (bytes[2] \div 16),
           (bytes[2] % 16) * 4 + (bytes[3] \div 64),
           bytes[3] % 64>>
         \o Base64Encode(SubSeq(bytes, 4, Len(bytes)))

\* The symbols of a base64 text before its padding.
Unpadded(symbols) == SelectSeq(symbols, LAMBDA x : x # Pad)

\* Buffer.from(text, 'base64') over the symbols before the padding: 4 symbols
\* give 3 bytes, a last group of 2 symbols gives 1 byte, of 3 symbols 2 bytes,
\* and a single last symbol gives none.
RECURSIVE Base64DecodeSymbols(_)
Base64DecodeSymbols(q) ==
    IF Len(q) < 2 THEN <<>>
    ELSE IF Len(q) = 2
    THEN <<q[1] * 4 + (q[2] \div 16)>>
    ELSE IF Len(q) = 3
    THEN <<q[1] * 4 + (q[2] \div 16), (q[2] % 16) * 16 + (q[3] \div 4)>>
    ELSE <<q[1] * 4 + (q[2] \div 16),
           (q[2] % 16) * 16 + (q[3] \div 4),
           (q[3] % 4) * 64 + q[4]>>
         \o Base64DecodeSymbols(SubSeq(q, 5, Len(q)))

Base64Decode(symbols) == Base64DecodeSymbols(Unpadded(symbols))

\* A defect: the identifier text is taken for base64 text already.
encodeCursor_raw(id) == [null |-> FALSE, base64 |-> id]

\* The cursor of an item: Buffer.from(id).toString('base64').
encodeCursor(id) == [null |-> FALSE, base64 |-> Base64Encode(Utf8Bytes(id))]

\* Buffer.from(cursor, 'base64').toString('utf8')
decodeCursor(cursor) == Utf8String(Base64Decode(cursor.base64))

\* startCursor / endCursor of a page without edges: null.
NoCursor == [null |-> TRUE, base64 |-> <<>>]

\* A defect: the last page announces a next page.
hasNextPage_inclusive(currentPage, totalPages) == currentPage <= totalPages

hasNextPage(currentPage, totalPages) == currentPage < totalPages

\* A defect: no previous page is announced when nothing matches.
hasPreviousPage_nonEmpty(currentPage, totalPages) ==
    currentPage > 1 /\ totalPages > 0

\* currentPage > 1; totalPages plays no part.
hasPreviousPage(currentPage, totalPages) == currentPage > 1

createPaginationResult(items, totalCount, page, limit) ==
    LET totalPages == MathCeilDiv(totalCount, limit)
        currentPage == Max(1, page)
        edges == [i \in 1..Len(items) |->
                    [node |-> items[i], cursor |-> encodeCursor(items[i]._id)]]
    IN [edges |-> edges,
        pageInfo |->
            [hasNextPage |-> hasNextPage(currentPage, totalPages),
             hasPreviousPage |-> hasPreviousPage(currentPage, totalPages),
             startCursor |-> IF Len(edges) > 0 THEN edges[1].cursor ELSE NoCursor,
             endCursor |-> IF Len(edges) > 0 THEN edges[Len(edges)].cursor
                           ELSE NoCursor,
             totalPages |-> totalPages,
             currentPage |-> currentPage],
        totalCount |-> totalCount]

\* A page fetch that does not skip: the first documents whatever the offset.
FindPage_noSkip(matching, offset, limit) == SubSeq(matching, 1, Min(Len(matching), limit))

\* Shipment.find(query).sort(sortOption).skip(offset).limit(limit) over the
\* sequence of matching documents in sort order: skip(n) with n <= 0 skips
\* nothing.
FindPage(matching, offset, limit) ==
    LET from == Max(0, offset) + 1
        to == Min(Len(matching), Max(0, offset) + limit)
    IN [i \in 1..Max(0, to - from + 1) |-> matching[from + i - 1]]

\* Query.shipments from its guard to its result, given the matching documents
\* in sort order: what it asks of storage and what it returns.
shipmentsQuery(context, args, matching) ==
    IF ~requireAuth(context).ok
    THEN [code |-> requireAuth(context).code, reads |-> 0, writes |-> 0]
    ELSE LET limit == normalizeLimit(OrElse(args.limit, args.first))
             page == OrElse(args.page, Num(1))[1]
             offset == calculateOffset(page, limit)
             found == FindPage(matching, offset, limit)
             totalCount == Len(matching)
         IN [code |-> "OK", reads |-> 2, writes |-> 0,
             limit |-> limit, page |-> page, offset |-> offset,
             result |-> createPaginationResult(found, totalCount, page, limit)]

\* The arguments a shipments query is called with.
LimitInputs ==
    {Undef} \cup
    {Num(n) : n \in ((0 - NegArgs)..SmallArgs)
                    \cup ((DEFAULT_PAGE_SIZE - 1)..(DEFAULT_PAGE_SIZE + 1))
                    \cup ((MAX_PAGE_SIZE - 1)..(MAX_PAGE_SIZE + OverMax))}
FirstInputs == {Undef, Num(0), Num(7), Num(MAX_PAGE_SIZE + 50)}
PageInputs == {Undef} \cup {Num(n) : n \in (0 - NegArgs)..MaxPage}

\* The numbers of documents matching the filter.
TotalInputs == (0..MaxTotal) \cup {20, 40, 45, 100, 101, 250}

\* A hexadecimal digit as its character code: '0'..'9' and 'a'..'f'.
HexDigit(d) == IF d < 10 THEN 48 + d ELSE 87 + d

\* The identifier text of the document of rank i: hexadecimal, as
\* ObjectId.toString() is, and distinct for distinct documents.
IdOfRank(i) ==
    <<HexDigit((i \div 256) % 16), HexDigit((i \div 16) % 16), HexDigit(i % 16)>>

\* The matching documents in sort order, named by their rank.
Matching(total) == [i \in 1..total |-> [_id |-> IdOfRank(i), rank |-> i]]

InitPage ==
    /\ IdleLoader
    /\ guard = IdleGuard
    /\ pageReq \in {[phase |-> "start", context |-> c, total |-> t,
                     args |-> [limit |-> l, first |-> f, page |-> p]] :
                       c \in {[user |-> NoUser],
                              [user |-> [userId |-> "B", role |-> "EMPLOYEE"]]},
                       t \in TotalInputs,
                       l \in LimitInputs, f \in FirstInputs, p \in PageInputs}
    /\ pageRes = IdlePageRes
    /\ shipments = <<>>
    /\ now = 0
    /\ opCount = 0
    /\ created = 0
    /\ lastOp = IdleLastOp
    /\ IdleServer

\* One call of Query.shipments.
ShipmentsPageStep ==
    /\ pageReq.phase = "start"
    /\ pageReq' = [pageReq EXCEPT !.phase = "done"]
    /\ pageRes' = shipmentsQuery(pageReq.context, pageReq.args,
                                 Matching(pageReq.total))
    /\ UNCHANGED <<users, cache, promises, batches, calls, fetches, tick,
                   guard, shipments, now, opCount, created, lastOp,
          isConnected, connects, requests, loaders>>

NextPage == ShipmentsPageStep

SpecPage == InitPage /\ [][NextPage]_vars

\* The size a request asks for: limit when given, first otherwise.
RequestedSize ==
    IF pageReq.args.limit # Undef THEN pageReq.args.limit ELSE pageReq.args.first

\* C8 as claimed: the effective page size lies in 1..MAX_PAGE_SIZE and is the
\* requested size clamped into that interval (above MAX gives MAX, 0 or less
\* gives 1, in range is unchanged); it is DEFAULT_PAGE_SIZE when no size is
\* requested.
C8_EffectiveSizeIsClamp ==
    pageRes.code = "OK" =>
        /\ pageRes.limit \in 1..MAX_PAGE_SIZE
        /\ RequestedSize = Undef => pageRes.limit = DEFAULT_PAGE_SIZE
        /\ RequestedSize # Undef =>
              pageRes.limit =
                 IF RequestedSize[1] > MAX_PAGE_SIZE THEN MAX_PAGE_SIZE
                 ELSE IF RequestedSize[1] <= 0 THEN 1
                 ELSE RequestedSize[1]

\* C9: a page argument that is omitted, 0 or negative is served as page 1
\* (offset 0, currentPage 1); a page p >= 1 is served with offset
\* (p - 1) * size and currentPage p; the offset is never negative.
C9_EffectivePage ==
    pageRes.code = "OK" =>
        LET p == pageReq.args.page IN
        /\ (p = Undef \/ p[1] <= 0) =>
              /\ pageRes.offset = 0
              /\ pageRes.result.pageInfo.currentPage = 1
        /\ (p # Undef /\ p[1] >= 1) =>
              /\ pageRes.offset = (p[1] - 1) * pageRes.limit
              /\ pageRes.result.pageInfo.currentPage = p[1]
        /\ pageRes.offset >= 0

\* C9 witness: page -1 of at least one matching document was served as page 1
\* from offset 0, and page 3 from offset 2 * size.
C9_Witness ==
    /\ pageRes.code = "OK"
    /\ \/ /\ pageReq.args.page = Num(0 - 1)
          /\ pageRes.offset = 0
          /\ pageRes.result.pageInfo.currentPage = 1
          /\ Len(pageRes.result.edges) > 0
       \/ /\ pageReq.args.page = Num(3)
          /\ pageRes.limit = 2
          /\ pageRes.offset = 4
          /\ pageRes.result.edges[1].node.rank = 5

\* C10: totalPages is the ceiling of totalCount / size, that is the least
\* number of pages of that size holding totalCount items, and it is 0 exactly
\* when totalCount is 0; size 20 and totalCount 45 give 3.
C10_TotalPagesIsCeiling ==
    pageRes.code = "OK" =>
        LET tp == pageRes.result.pageInfo.totalPages
            tc == pageRes.result.totalCount
            size == pageRes.limit
        IN /\ tc = pageReq.total
           /\ size \in 1..MAX_PAGE_SIZE
           /\ tp >= 0
           /\ tp * size >= tc
           /\ (tp - 1) * size < tc
           /\ (tp = 0) <=> (tc = 0)
           /\ (size = 20 /\ tc = 45) => tp = 3

\* C10 witness: page 2 of 45 matching documents at the default size has 3
\* pages; and a query matching nothing has 0.
C10_Witness ==
    /\ pageRes.code = "OK"
    /\ pageReq.args.page = Num(2)
    /\ pageRes.limit = 20
    /\ pageRes.result.totalCount = 45
    /\ pageRes.result.pageInfo.totalPages = 3

\* C11: every PageResult has hasNextPage = (currentPage < totalPages), that
\* is exactly when items remain after the current page, and hasPreviousPage =
\* (currentPage > 1); a page beyond the last page has no next page and has a
\* previous one, a query matching nothing has no next page, and page 2 of 45
\* at size 20 has both.
C11_PageFlags ==
    pageRes.code = "OK" =>
        LET info == pageRes.result.pageInfo
            tc == pageRes.result.totalCount
        IN /\ info.hasNextPage <=> (info.currentPage < info.totalPages)
           /\ info.hasNextPage <=> (info.currentPage * pageRes.limit < tc)
           /\ info.hasPreviousPage <=> (info.currentPage > 1)
           /\ (info.totalPages >= 1 /\ info.currentPage > info.totalPages) =>
                 (~info.hasNextPage /\ info.hasPreviousPage)
           /\ tc = 0 => ~info.hasNextPage
           /\ (info.currentPage = 2 /\ pageRes.limit = 20 /\ tc = 45) =>
                 (info.hasNextPage /\ info.hasPreviousPage /\ info.totalPages = 3)

\* C11 witness: page 4 of 5 matching documents at size 2 was served, a page
\* beyond the last one, with no next page and a previous page.
C11_Witness ==
    /\ pageRes.code = "OK"
    /\ pageRes.limit = 2
    /\ pageRes.result.totalCount = 5
    /\ pageRes.result.pageInfo.currentPage = 4
    /\ pageRes.result.pageInfo.totalPages = 3
    /\ ~pageRes.result.pageInfo.hasNextPage
    /\ pageRes.result.pageInfo.hasPreviousPage

\* C12: when nothing matches, the PageResult has no edge, totalPages 0, no
\* next page, a previous page exactly when the page is above 1, and null
\* start and end cursors; in every PageResult the two cursors are null exactly
\* when there is no edge, and otherwise are the cursors of the first and of the
\* last edge.
C12_EmptyResultAndCursorEnds ==
    pageRes.code = "OK" =>
        LET res == pageRes.result
            info == pageRes.result.pageInfo
            n == Len(pageRes.result.edges)
        IN /\ pageReq.total = 0 =>
                 /\ res.edges = <<>>
                 /\ info.totalPages = 0
                 /\ ~info.hasNextPage
                 /\ info.hasPreviousPage <=> (pageRes.page > 1)
                 /\ info.startCursor = NoCursor
                 /\ info.endCursor = NoCursor
           /\ (info.startCursor = NoCursor) <=> (n = 0)
           /\ (info.endCursor = NoCursor) <=> (n = 0)
           /\ n > 0 =>
                 /\ info.startCursor = res.edges[1].cursor
                 /\ info.endCursor = res.edges[n].cursor

\* C12 witness: page 3 of a query matching nothing was served, with no edge,
\* a previous page and null cursors.
C12_Witness ==
    /\ pageRes.code = "OK"
    /\ pageReq.total = 0
    /\ pageRes.page = 3
    /\ pageRes.result.edges = <<>>
    /\ pageRes.result.pageInfo.hasPreviousPage
    /\ pageRes.result.pageInfo.startCursor = NoCursor

(* Cursors: encodeCursor and decodeCursor over identifier texts *)

\* Characters of a hexadecimal identifier: '0', '9', 'a' and 'f'.
HexChars == {HexDigit(0), HexDigit(9), HexDigit(10), HexDigit(15)}

\* The identifier texts cursors are made of.
IdTexts == UNION {[1..n -> HexChars] : n \in 1..MaxIdLen}

\* The items of a page: documents with unique identifiers.
ItemLists ==
    {IF a = b THEN <<[_id |-> a]>> ELSE <<[_id |-> a], [_id |-> b]>> :
        a \in IdTexts, b \in IdTexts}

InitCursor ==
    /\ IdleLoader
    /\ guard = IdleGuard
    /\ pageReq \in {[phase |-> "start", items |-> q] : q \in ItemLists}
    /\ pageRes = IdlePageRes
    /\ shipments = <<>>
    /\ now = 0
    /\ opCount = 0
    /\ created = 0
    /\ lastOp = IdleLastOp
    /\ IdleServer

\* The items are given their cursors in a PageResult.
EncodeStep ==
    /\ pageReq.phase = "start"
    /\ pageReq' = [pageReq EXCEPT !.phase = "encoded"]
    /\ pageRes' = [code |-> "OK",
                   result |-> createPaginationResult(pageReq.items,
                                 Len(pageReq.items), 1, DEFAULT_PAGE_SIZE),
                   decoded |-> <<>>]
    /\ UNCHANGED <<users, cache, promises, batches, calls, fetches, tick,
                   guard, shipments, now, opCount, created, lastOp,
          isConnected, connects, requests, loaders>>

\* The cursor of every edge is decoded.
DecodeStep ==
    /\ pageReq.phase = "encoded"
    /\ pageReq' = [pageReq EXCEPT !.phase = "decoded"]
    /\ pageRes' = [pageRes EXCEPT !.decoded =
                     [i \in DOMAIN pageRes.result.edges |->
                        decodeCursor(pageRes.result.edges[i].cursor)]]
    /\ UNCHANGED <<users, cache, promises, batches, calls, fetches, tick,
                   guard, shipments, now, opCount, created, lastOp,
          isConnected, connects, requests, loaders>>

NextCursor == EncodeStep \/ DecodeStep

SpecCursor == InitCursor /\ [][NextCursor]_vars

\* C13: decodeCursor(encodeCursor(id)) = id for every identifier text: the
\* cursor of each edge of a PageResult decodes to the identifier of the edge's
\* item, and the edges of distinct items have distinct cursors.
C13_CursorRoundTrip ==
    /\ pageReq.phase \in {"encoded", "decoded"} =>
          LET edges == pageRes.result.edges IN
          /\ Len(edges) = Len(pageReq.items)
          /\ \A i \in DOMAIN edges : edges[i].node = pageReq.items[i]
          /\ \A i, j \in DOMAIN edges :
                i # j => edges[i].cursor # edges[j].cursor
    /\ pageReq.phase = "decoded" =>
          /\ DOMAIN pageRes.decoded = DOMAIN pageRes.result.edges
          /\ \A i \in DOMAIN pageRes.decoded :
                pageRes.decoded[i] = pageReq.items[i]._id

\* C13 witness: two items, one with an identifier whose cursor is padded, were
\* given cursors that differ from their identifiers and decode to them.
C13_Witness ==
    /\ pageReq.phase = "decoded"
    /\ Len(pageReq.items) = 2
    /\ Len(pageReq.items[1]._id) = 2
    /\ Len(pageReq.items[2]._id) = 3
    /\ pageRes.result.edges[1].cursor.base64[4] = Pad
    /\ pageRes.result.edges[2].cursor.base64 # pageReq.items[2]._id
    /\ pageRes.decoded[2] = pageReq.items[2]._id

---------------------------------------------------------------------------
(* The filter of Query.shipments: buildFilterQuery and the documents a     *)
(* query matches                                                           *)

\* An optional argument or field: omitted, or given with a value.  The value
\* of an omitted one is never read.
Omitted(d) == [has |-> FALSE, v |-> d]
Given(x) == [has |-> TRUE, v |-> x]

\* Texts are sequences of characters.  A character without case is its own
\* lower-case form.
ToLower(c) ==
    CASE c = "A" -> "a" [] c = "B" -> "b" [] c = "F" -> "f"
      [] c = "U" -> "u" [] c = "X" -> "x"
      [] OTHER -> c
ToLowerText(t) == [i \in DOMAIN t |-> ToLower(t[i])]

\* A defect: an empty list counts as a list of values.
HasLength_given(x) == x.has

\* filter.status?.length: the list is given and has a member.
HasLength(x) == x.has /\ Len(x.v) > 0

\* if (filter.carrier): the text is given and is not empty.
TruthyText(x) == x.has /\ x.v # <<>>

\* A defect: a bound of 0 counts as no bound.
Defined_truthy(x) == x.has /\ x.v # 0

\* filter.minCost !== undefined
Defined(x) == x.has

\* typeof filter.isFlagged === 'boolean'
IsBoolean(x) == x.has

\* if (filter.estimatedDeliveryFrom): the date text is given and is not ''.
TruthyDateText(x) == x.has /\ x.v # ""

\* The time value of an Invalid Date.
InvalidDate == -1

\* new Date(text): the time the text denotes, in days; Invalid Date for a text
\* that is no date.
NewDate(text) ==
    CASE text = "2024-01-10" -> 10
      [] text = "2024-01-20" -> 20
      [] text = "2024-01-30" -> 30
      [] OTHER -> InvalidDate

\* new RegExp(source, 'i')
NewRegExp(source) == [op |-> "$regex", source |-> source, flags |-> "i"]

\* The $gte / $lte object of a cost range.
CostRange(filter) ==
    [op |-> "range",
     gte |-> IF Defined(filter.minCost) THEN Given(filter.minCost.v)
             ELSE Omitted(0),
     lte |-> IF Defined(filter.maxCost) THEN Given(filter.maxCost.v)
             ELSE Omitted(0)]

\* The $gte / $lte object of a date range.
DateRange(from, to) ==
    [op |-> "range",
     gte |-> IF TruthyDateText(from) THEN Given(NewDate(from.v)) ELSE Omitted(0),
     lte |-> IF TruthyDateText(to) THEN Given(NewDate(to.v)) ELSE Omitted(0)]

\* The keys buildFilterQuery can put in a query.
QueryKeys ==
    {"status", "priority", "type", "carrier", "isFlagged", "origin.city",
     "origin.state", "destination.city", "destination.state", "cost",
     "estimatedDelivery", "createdAt", "$text"}

\* The query of no constraint: {}.
EmptyQuery == <<>>

\* buildFilterQuery: the query object, a function from its keys to their
\* conditions.
buildFilterQuery(filterArg) ==
    IF ~filterArg.has THEN EmptyQuery
    ELSE
    LET filter == filterArg.v
        set(k) ==
            CASE k = "status" -> HasLength(filter.status)
              [] k = "priority" -> HasLength(filter.priority)
              [] k = "type" -> HasLength(filter.type)
              [] k = "carrier" -> TruthyText(filter.carrier)
              [] k = "isFlagged" -> IsBoolean(filter.isFlagged)
              [] k = "origin.city" -> TruthyText(filter.originCity)
              [] k = "origin.state" -> TruthyText(filter.originState)
              [] k = "destination.city" -> TruthyText(filter.destinationCity)
              [] k = "destination.state" -> TruthyText(filter.destinationState)
              [] k = "cost" ->
                    Defined(filter.minCost) \/ Defined(filter.maxCost)
              [] k = "estimatedDelivery" ->
                    \/ TruthyDateText(filter.estimatedDeliveryFrom)
                    \/ TruthyDateText(filter.estimatedDeliveryTo)
              [] k = "createdAt" ->
                    \/ TruthyDateText(filter.createdFrom)
                    \/ TruthyDateText(filter.createdTo)
              [] k = "$text" -> TruthyText(filter.search)
        value(k) ==
            CASE k = "status" -> [op |-> "$in", values |-> filter.status.v]
              [] k = "priority" -> [op |-> "$in", values |-> filter.priority.v]
              [] k = "type" -> [op |-> "$in", values |-> filter.type.v]
              [] k = "carrier" -> NewRegExp(filter.carrier.v)
              [] k = "isFlagged" -> [op |-> "$eq", value |-> filter.isFlagged.v]
              [] k = "origin.city" -> NewRegExp(filter.originCity.v)
              [] k = "origin.state" -> NewRegExp(filter.originState.v)
              [] k = "destination.city" -> NewRegExp(filter.destinationCity.v)
              [] k = "destination.state" -> NewRegExp(filter.destinationState.v)
              [] k = "cost" -> CostRange(filter)
              [] k = "estimatedDelivery" ->
                    DateRange(filter.estimatedDeliveryFrom,
                              filter.estimatedDeliveryTo)
              [] k = "createdAt" ->
                    DateRange(filter.createdFrom, filter.createdTo)
              [] k = "$text" -> [op |-> "$search", search |-> filter.search.v]
    IN [k \in {q \in QueryKeys : set(q)} |-> value(k)]

\* A text contains a match of a regular expression whose source has no
\* special character, under the flag i: the source occurs in the text, case
\* aside.
RegExpTest(re, text) ==
    LET n == Len(re.source) IN
    \E i \in 0..(Len(text) - n) :
        ToLowerText(SubSeq(text, i + 1, i + n)) = ToLowerText(re.source)

\* The fields of the text index.
TextIndex ==
    {"trackingNumber", "description", "origin.city", "destination.city",
     "carrier"}

\* $text search of one term over single-word fields: some indexed field is the
\* term, case aside.
TextSearch(doc, term) ==
    \E k \in TextIndex : ToLowerText(doc[k]) = ToLowerText(term)

\* A document satisfies the condition a query holds under one key.
Satisfies(doc, k, cond) ==
    CASE cond.op = "$in" -> doc[k] \in Range(cond.values)
      [] cond.op = "$regex" -> RegExpTest(cond, doc[k])
      [] cond.op = "$eq" -> doc[k] = cond.value
      [] cond.op = "range" ->
            /\ cond.gte.has => doc[k] >= cond.gte.v
            /\ cond.lte.has => doc[k] <= cond.lte.v
      [] cond.op = "$search" -> TextSearch(doc, cond.search)

\* A document matches a query: it satisfies the condition of every key.
Matches(doc, query) ==
    \A k \in DOMAIN query : Satisfies(doc, k, query[k])

\* Casting a query to the schema fails (CastError) when a date condition holds
\* an Invalid Date.
CastsToSchema(query) ==
    \A k \in DOMAIN query \cap {"estimatedDelivery", "createdAt"} :
        /\ query[k].gte.has => query[k].gte.v # InvalidDate
        /\ query[k].lte.has => query[k].lte.v # InvalidDate

\* The fields of a stored shipment that filters, sorts and cursors read.
DocKeys ==
    {"_id", "trackingNumber", "description", "status", "priority", "type",
     "carrier", "isFlagged", "origin.city", "origin.state",
     "destination.city", "destination.state", "cost", "estimatedDelivery",
     "createdAt", "updatedAt"}

\* The character of a digit.
DigitChar(n) ==
    CASE n = 1 -> "1" [] n = 2 -> "2" [] n = 3 -> "3" [] n = 4 -> "4"
      [] n = 5 -> "5" [] OTHER -> "0"

\* A stored shipment: n is the rank of its identifier, flag is isFlagged, from
\* and to are the city and state of its origin and destination, due is
\* estimatedDelivery and at is createdAt = updatedAt.
StoredShipment(n, status, priority, type, carrier, flag, from, to, cost, due, at) ==
    [k \in DocKeys |->
        CASE k = "_id" -> IdOfRank(n)
          [] k = "trackingNumber" -> <<"T", "M", "S", DigitChar(n)>>
          [] k = "description" -> <<"b", "o", "x">>
          [] k = "status" -> status
          [] k = "priority" -> priority
          [] k = "type" -> type
          [] k = "carrier" -> carrier
          [] k = "isFlagged" -> flag
          [] k = "origin.city" -> from[1]
          [] k = "origin.state" -> from[2]
          [] k = "destination.city" -> to[1]
          [] k = "destination.state" -> to[2]
          [] k = "cost" -> cost
          [] k = "estimatedDelivery" -> due
          [] k = "createdAt" -> at
          [] k = "updatedAt" -> at]

Ayr == <<<<"A", "y", "r">>, <<"T", "X">>>>
Bux == <<<<"B", "u", "x">>, <<"M", "A">>>>
Fay == <<<<"F", "a", "y">>, <<"T", "X">>>>

\* The shipment collection the queries of SpecQuery run on, in storage order.
SampleShipments ==
    <<StoredShipment(1, "DELIVERED", "HIGH", "EXPRESS", <<"F", "e", "d">>,
                     FALSE, Ayr, Bux, 500, 20, 10),
      StoredShipment(2, "PENDING", "LOW", "STANDARD", <<"U", "P", "S">>,
                     TRUE, Bux, Ayr, 0, 10, 20),
      StoredShipment(3, "DELIVERED", "MEDIUM", "STANDARD", <<"f", "e", "d">>,
                     FALSE, Fay, Bux, 99, 30, 30),
      StoredShipment(4, "IN_TRANSIT", "HIGH", "EXPRESS", <<"U", "P", "S">>,
                     FALSE, Ayr, Fay, 100, 20, 20),
      StoredShipment(5, "DELIVERED", "URGENT", "FREIGHT", <<"F", "a", "x">>,
                     TRUE, Bux, Fay, 501, 10, 10)>>

\* Shipment.find(query) / Shipment.countDocuments(query): the documents of the
\* collection matching the query, in storage order.
RECURSIVE FindAll(_, _)
FindAll(docs, query) ==
    IF docs = <<>> THEN <<>>
    ELSE (IF Matches(Head(docs), query) THEN <<Head(docs)>> ELSE <<>>)
         \o FindAll(Tail(docs), query)

---------------------------------------------------------------------------
(* The sort of Query.shipments: sortFieldMap and sortOption *)

sortFieldMap ==
    [TRACKING_NUMBER |-> "trackingNumber",
     STATUS |-> "status",
     PRIORITY |-> "priority",
     CARRIER |-> "carrier",
     ESTIMATED_DELIVERY |-> "estimatedDelivery",
     COST |-> "cost",
     CREATED_AT |-> "createdAt",
     UPDATED_AT |-> "updatedAt"]

\* Names an object literal inherits from Object.prototype: reading one from
\* sortFieldMap gives a function or an object, both truthy.
InheritedNames == {"constructor", "toString", "__proto__"}

\* The property key an inherited value becomes in { [sortField]: ... }.
InheritedKey(name) ==
    CASE name = "constructor" -> "function Object() { [native code] }"
      [] name = "toString" -> "function toString() { [native code] }"
      [] name = "__proto__" -> "[object Object]"

\* A defect: every name resolves to the default field.
SortField_default(name) == "createdAt"

\* sortFieldMap[args.sort.field] || 'createdAt', as a property key.
SortField(name) ==
    IF name \in DOMAIN sortFieldMap THEN sortFieldMap[name]
    ELSE IF name \in InheritedNames THEN InheritedKey(name)
    ELSE "createdAt"

\* sortOption: the field to sort on and the direction, 1 or -1.
SortOption(sort) ==
    IF ~sort.has THEN [field |-> "createdAt", direction |-> -1]
    ELSE [field |-> SortField(sort.v.field),
          direction |-> IF sort.v.order = "ASC" THEN 1 ELSE -1]

\* The character codes of the characters used in sorted texts.
CharCode(c) ==
    CASE c = "0" -> 48 [] c = "1" -> 49 [] c = "2" -> 50 [] c = "3" -> 51
      [] c = "4" -> 52 [] c = "5" -> 53
      [] c = "F" -> 70 [] c = "M" -> 77 [] c = "P" -> 80 [] c = "S" -> 83
      [] c = "T" -> 84 [] c = "U" -> 85
      [] c = "a" -> 97 [] c = "d" -> 100 [] c = "e" -> 101 [] c = "f" -> 102
      [] c = "x" -> 120
      [] OTHER -> 0

\* The order of two texts: character by character, a prefix first.
RECURSIVE TextLess(_, _)
TextLess(a, b) ==
    IF b = <<>> THEN FALSE
    ELSE IF a = <<>> THEN TRUE
    ELSE IF CharCode(a[1]) # CharCode(b[1]) THEN CharCode(a[1]) < CharCode(b[1])
    ELSE TextLess(Tail(a), Tail(b))

\* The place of an enumeration value in the order of strings, among the
\* values of its enumeration.
EnumOrder(s) ==
    CASE s = "CANCELLED" -> 1 [] s = "DELAYED" -> 2 [] s = "DELIVERED" -> 3
      [] s = "IN_TRANSIT" -> 4 [] s = "OUT_FOR_DELIVERY" -> 5
      [] s = "PENDING" -> 6 [] s = "PICKED_UP" -> 7 [] s = "RETURNED" -> 8
      [] s = "HIGH" -> 1 [] s = "LOW" -> 2 [] s = "MEDIUM" -> 3
      [] s = "URGENT" -> 4

\* Document a sorts before document b on a field, ascending.  Documents
\* without the field are all equal on it.
Before(a, b, field) ==
    IF field \in {"trackingNumber", "carrier"} THEN TextLess(a[field], b[field])
    ELSE IF field \in {"status", "priority"}
    THEN EnumOrder(a[field]) < EnumOrder(b[field])
    ELSE IF field \in {"estimatedDelivery", "cost", "createdAt", "updatedAt"}
    THEN a[field] < b[field]
    ELSE FALSE

\* .sort(sortOption): the documents in the order of the field, in the given
\* direction; documents equal on the field keep their storage order.
RECURSIVE SortDocs(_, _)
SortDocs(docs, sortOption) ==
    IF docs = <<>> THEN <<>>
    ELSE LET rest == SortDocs(SubSeq(docs, 1, Len(docs) - 1), sortOption)
             d == docs[Len(docs)]
             after(x) == IF sortOption.direction = 1
                         THEN Before(d, x, sortOption.field)
                         ELSE Before(x, d, sortOption.field)
             \* d goes before the first document that must come after it
             at == IF \E i \in DOMAIN rest : after(rest[i])
                   THEN CHOOSE i \in DOMAIN rest :
                          /\ after(rest[i])
                          /\ \A j \in 1..(i - 1) : ~after(rest[j])
                   ELSE Len(rest) + 1
         IN SubSeq(rest, 1, at - 1) \o <<d>> \o SubSeq(rest, at, Len(rest))

---------------------------------------------------------------------------
(* Query.shipments with its filter, its sort and its two storage operations *)

\* How the two storage operations of a query end, and which one ends first.
Outcomes ==
    {[find |-> f, count |-> c, first |-> w] :
        f \in {"ok", "E1"}, c \in {"ok", "E2"}, w \in {"find", "count"}}
BothSucceed == [find |-> "ok", count |-> "ok", first |-> "find"]

\* A defect: a failed count is passed over.
PromiseAll_countOptional(outcome) == outcome.find

\* await Promise.all([find, count]): "ok" when both fulfil, and otherwise the
\* error of the operation that rejects first.
PromiseAll(outcome) ==
    IF outcome.find = "ok" THEN outcome.count
    ELSE IF outcome.count = "ok" THEN outcome.find
    ELSE IF outcome.first = "find" THEN outcome.find
    ELSE outcome.count

\* Query.shipments over a collection: what it builds, what it asks of storage
\* and what it returns or throws.
shipmentsResolver(context, args, docs, outcome) ==
    LET query == buildFilterQuery(args.filter)
        sortOption == SortOption(args.sort)
        matching == SortDocs(FindAll(docs, query), sortOption)
        paged == shipmentsQuery(context, args, matching)
        settled == IF CastsToSchema(query) THEN PromiseAll(outcome)
                   ELSE "CastError"
    IN IF paged.code # "OK"
       THEN [code |-> paged.code, finds |-> 0, counts |-> 0]
       ELSE IF settled # "ok"
       THEN [code |-> settled, finds |-> 1, counts |-> 1,
             query |-> query, sortOption |-> sortOption]
       ELSE [code |-> "OK", finds |-> 1, counts |-> 1,
             query |-> query, sortOption |-> sortOption,
             limit |-> paged.limit, page |-> paged.page,
             offset |-> paged.offset, result |-> paged.result]

\* A filter with no field.
EmptyFilter ==
    [status |-> Omitted(<<>>), priority |-> Omitted(<<>>),
     type |-> Omitted(<<>>), carrier |-> Omitted(<<>>),
     isFlagged |-> Omitted(FALSE), originCity |-> Omitted(<<>>),
     originState |-> Omitted(<<>>), destinationCity |-> Omitted(<<>>),
     destinationState |-> Omitted(<<>>), minCost |-> Omitted(0),
     maxCost |-> Omitted(0), estimatedDeliveryFrom |-> Omitted(""),
     estimatedDeliveryTo |-> Omitted(""), createdFrom |-> Omitted(""),
     createdTo |-> Omitted(""), search |-> Omitted(<<>>)]

FilterFields == DOMAIN EmptyFilter

\* The values each field of a filter is given.
FieldInputs ==
    [status |-> <<<<>>, <<"DELIVERED">>, <<"PENDING", "IN_TRANSIT">>>>,
     priority |-> <<<<>>, <<"HIGH">>, <<"LOW", "URGENT">>>>,
     type |-> <<<<>>, <<"EXPRESS">>, <<"FREIGHT">>>>,
     carrier |-> <<<<>>, <<"f", "e">>, <<"U", "P", "S">>>>,
     isFlagged |-> <<TRUE, FALSE, FALSE>>,
     originCity |-> <<<<>>, <<"a", "y">>, <<"B">>>>,
     originState |-> <<<<>>, <<"t", "x">>, <<"M", "A">>>>,
     destinationCity |-> <<<<>>, <<"u", "x">>, <<"F", "a", "y">>>>,
     destinationState |-> <<<<>>, <<"T">>, <<"m", "a">>>>,
     minCost |-> <<0, 100, 500>>,
     maxCost |-> <<0, 100, 500>>,
     estimatedDeliveryFrom |-> <<"", "2024-01-20", "next week">>,
     estimatedDeliveryTo |-> <<"", "2024-01-20", "20/01">>,
     createdFrom |-> <<"", "2024-01-20", "soon">>,
     createdTo |-> <<"", "2024-01-10", "2024-13-45">>,
     search |-> <<<<>>, <<"f", "e", "d">>, <<"B", "U", "X">>>>]

\* The filters with at most n fields given.
RECURSIVE FiltersOf(_)
FiltersOf(n) ==
    IF n = 0 THEN {EmptyFilter}
    ELSE LET fewer == FiltersOf(n - 1) IN
         fewer \cup
         {[f EXCEPT ![k] = Given(FieldInputs[k][i])] :
             f \in fewer, k \in FilterFields, i \in 1..3}

FilterInputs ==
    {Omitted(EmptyFilter)} \cup {Given(f) : f \in FiltersOf(MaxFields)}

NoSort == [field |-> "CREATED_AT", order |-> "DESC"]

\* The sort arguments: the values of the schema's enum ShipmentSortField, which
\* are the eight names of the table, in both directions.  The schema rejects
\* every other name before the resolver is called.
SortFieldInputs ==
    {"TRACKING_NUMBER", "STATUS", "PRIORITY", "CARRIER", "ESTIMATED_DELIVERY",
     "COST", "CREATED_AT", "UPDATED_AT"}
SortInputs ==
    {Omitted(NoSort)} \cup
    {Given([field |-> f, order |-> o]) :
        f \in SortFieldInputs, o \in {"ASC", "DESC"}}

\* The cursor arguments of a call: after, before and last, which
\* Query.shipments receives and never reads.
NoCursorArgs == [after |-> Omitted(<<>>), before |-> Omitted(<<>>), last |-> Undef]
CursorArgInputs ==
    {NoCursorArgs,
     [after |-> Given(encodeCursor(SampleShipments[1]["_id"]).base64),
      before |-> Omitted(<<>>), last |-> Undef],
     [after |-> Omitted(<<>>),
      before |-> Given(encodeCursor(SampleShipments[4]["_id"]).base64),
      last |-> Num(1)]}

\* The arguments of a call of Query.shipments.
ShipmentsCall(limit, page, filter, sort, cursorArgs) ==
    [limit |-> limit, first |-> Undef, page |-> page, filter |-> filter,
     sort |-> sort, after |-> cursorArgs.after, before |-> cursorArgs.before,
     last |-> cursorArgs.last]

\* The filters of the paged calls: none, delivered shipments of cost 500 and
\* more, shipments of cost 99 and more.
PagedFilterInputs ==
    {Omitted(EmptyFilter),
     Given([EmptyFilter EXCEPT !.status = Given(<<"DELIVERED">>),
                               !.minCost = Given(500)]),
     Given([EmptyFilter EXCEPT !.minCost = Given(99)])}

\* The calls of SpecQuery: every filter under the default sort with storage
\* answering, every sort under every outcome of the storage operations, and
\* the pages of two shipments under every sort with and without cursor
\* arguments.
QueryRequests ==
    {[phase |-> "start", outcome |-> BothSucceed,
      args |-> ShipmentsCall(l, Undef, f, Omitted(NoSort), NoCursorArgs)] :
        f \in FilterInputs, l \in {Undef, Num(2)}}
    \cup
    {[phase |-> "start", outcome |-> o,
      args |-> ShipmentsCall(Undef, Undef, f, s, NoCursorArgs)] :
        o \in Outcomes, s \in SortInputs,
        f \in {Omitted(EmptyFilter),
               Given([EmptyFilter EXCEPT !.status = Given(<<"DELIVERED">>),
                                         !.minCost = Given(500)])}}
    \cup
    {[phase |-> "start", outcome |-> BothSucceed,
      args |-> ShipmentsCall(Num(2), p, f, s, c)] :
        p \in {Undef, Num(1), Num(2), Num(3)}, f \in PagedFilterInputs,
        s \in SortInputs, c \in CursorArgInputs}

InitQuery ==
    /\ IdleLoader
    /\ guard = IdleGuard
    /\ pageReq \in QueryRequests
    /\ pageRes = IdlePageRes
    /\ shipments = <<>>
    /\ now = 0
    /\ opCount = 0
    /\ created = 0
    /\ lastOp = IdleLastOp
    /\ IdleServer

\* One call of Query.shipments by an authenticated employee.
ShipmentsQueryStep ==
    /\ pageReq.phase = "start"
    /\ pageReq' = [pageReq EXCEPT !.phase = "done"]
    /\ pageRes' = shipmentsResolver(
                      [user |-> [userId |-> "B", role |-> "EMPLOYEE"]],
                      pageReq.args, SampleShipments, pageReq.outcome)
    /\ UNCHANGED <<users, cache, promises, batches, calls, fetches, tick,
                   guard, shipments, now, opCount, created, lastOp,
          isConnected, connects, requests, loaders>>

NextQuery == ShipmentsQueryStep

SpecQuery == InitQuery /\ [][NextQuery]_vars

---------------------------------------------------------------------------
(* Claims about the filter, the sort and the storage operations of the     *)
(* shipments query, checked under SpecQuery                                *)

\* The filter of the request; no filter argument is a filter of no field.
RequestFilter ==
    IF pageReq.args.filter.has THEN pageReq.args.filter.v ELSE EmptyFilter

\* Every stored shipment is on the page returned: no page size was asked for
\* and the collection is smaller than the default size.
WholeResult ==
    /\ pageReq.phase = "done"
    /\ pageRes.code = "OK"
    /\ pageReq.args.limit = Undef

\* The stored shipments the returned edges hold.
Returned_ == {pageRes.result.edges[i].node : i \in DOMAIN pageRes.result.edges}

\* A text occurs in another, case aside.
OccursIn(part, text) ==
    \E i \in 0..Len(text), j \in 0..Len(text) :
        i <= j /\ ToLowerText(SubSeq(text, i + 1, j)) = ToLowerText(part)

TextDimensions ==
    [carrier |-> "carrier", originCity |-> "origin.city",
     originState |-> "origin.state", destinationCity |-> "destination.city",
     destinationState |-> "destination.state"]

ListDimensions == {"status", "priority", "type"}

DateFields ==
    {"estimatedDeliveryFrom", "estimatedDeliveryTo", "createdFrom", "createdTo"}

\* The date texts of a filter are dates.
DateTextsValid(f) ==
    \A k \in DateFields : f[k].has => NewDate(f[k].v) # InvalidDate

\* A field of the filter specifies a constraint: it is given, and it is not an
\* empty list or an empty text.
Specified(f, k) ==
    /\ f[k].has
    /\ k \in ListDimensions \cup DOMAIN TextDimensions \cup {"search"}
          => f[k].v # <<>>

\* A stored shipment satisfies the constraint of one specified field.
DimensionHolds(f, k, d) ==
    CASE k \in ListDimensions -> \E i \in DOMAIN f[k].v : d[k] = f[k].v[i]
      [] k \in DOMAIN TextDimensions -> OccursIn(f[k].v, d[TextDimensions[k]])
      [] k = "isFlagged" -> d["isFlagged"] = f[k].v
      [] k = "minCost" -> d["cost"] >= f[k].v
      [] k = "maxCost" -> d["cost"] <= f[k].v
      [] k = "estimatedDeliveryFrom" -> d["estimatedDelivery"] >= NewDate(f[k].v)
      [] k = "estimatedDeliveryTo" -> d["estimatedDelivery"] <= NewDate(f[k].v)
      [] k = "createdFrom" -> d["createdAt"] >= NewDate(f[k].v)
      [] k = "createdTo" -> d["createdAt"] <= NewDate(f[k].v)
      [] k = "search" -> TextSearch(d, f[k].v)

\* The key of the query a field of the filter constrains.
QueryKeyOf(k) ==
    CASE k \in ListDimensions \cup {"carrier", "isFlagged"} -> k
      [] k \in DOMAIN TextDimensions -> TextDimensions[k]
      [] k \in {"minCost", "maxCost"} -> "cost"
      [] k \in {"estimatedDeliveryFrom", "estimatedDeliveryTo"} ->
            "estimatedDelivery"
      [] k \in {"createdFrom", "createdTo"} -> "createdAt"
      [] k = "search" -> "$text"

\* C14: the compiled predicate is the conjunction of exactly the constraints
\* of the fields present in the filter.  For every filter whose date texts are
\* dates: the query has a key exactly for the specified fields; a stored
\* shipment is returned if and only if it satisfies every specified field; an
\* omitted field and an empty list add no constraint; and no filter or a
\* filter of no field gives the empty query and returns every stored shipment.
C14_FilterIsConjunction ==
    (pageReq.phase = "done" /\ pageRes.code = "OK"
        /\ DateTextsValid(RequestFilter)) =>
        LET f == RequestFilter
            holds(d) == \A k \in FilterFields :
                            Specified(f, k) => DimensionHolds(f, k, d)
            matching == {i \in DOMAIN SampleShipments : holds(SampleShipments[i])}
        IN /\ DOMAIN pageRes.query =
                 {QueryKeyOf(k) : k \in {q \in FilterFields : Specified(f, q)}}
           /\ pageRes.result.totalCount = Cardinality(matching)
           /\ \A d \in Returned_ : holds(d)
           /\ WholeResult => Returned_ = {SampleShipments[i] : i \in matching}
           /\ (\A k \in FilterFields : ~Specified(f, k)) =>
                 /\ pageRes.query = EmptyQuery
                 /\ pageRes.result.totalCount = Len(SampleShipments)

\* C14 witness: a filter of two fields, status DELIVERED and isFlagged true,
\* returned the one stored shipment satisfying both, and not the delivered
\* shipments that are not flagged nor the flagged one that is pending.
C14_Witness ==
    /\ WholeResult
    /\ RequestFilter.status = Given(<<"DELIVERED">>)
    /\ RequestFilter.isFlagged = Given(TRUE)
    /\ DOMAIN pageRes.query = {"status", "isFlagged"}
    /\ Returned_ = {SampleShipments[5]}

\* The fields of the request's filter other than the cost bounds are omitted.
OnlyCostBounds ==
    /\ pageReq.args.filter.has
    /\ \A k \in FilterFields \ {"minCost", "maxCost"} : ~RequestFilter[k].has
    /\ RequestFilter.minCost.has \/ RequestFilter.maxCost.has

\* C15: the cost range applies each bound independently and inclusively.  With
\* only minCost = m a stored shipment is returned iff cost >= m, with only
\* maxCost = M iff cost <= M, with both iff m <= cost <= M; a bound of 0 is a
\* bound: maxCost = 0 returns the shipments of cost 0 only.
C15_CostRangeInclusive ==
    (WholeResult /\ OnlyCostBounds) =>
        LET f == RequestFilter IN
        /\ \A i \in DOMAIN SampleShipments :
              LET d == SampleShipments[i] IN
              d \in Returned_ <=>
                 /\ f.minCost.has => d["cost"] >= f.minCost.v
                 /\ f.maxCost.has => d["cost"] <= f.maxCost.v
        /\ (f.maxCost = Given(0) /\ ~f.minCost.has) =>
              \A d \in Returned_ : d["cost"] = 0

\* C15 witness: minCost = 100 alone returned the shipment of cost 100 and not
\* the one of cost 99.
C15_Witness ==
    /\ WholeResult
    /\ OnlyCostBounds
    /\ RequestFilter.minCost = Given(100)
    /\ ~RequestFilter.maxCost.has
    /\ SampleShipments[4]["cost"] = 100
    /\ SampleShipments[4] \in Returned_
    /\ SampleShipments[3]["cost"] = 99
    /\ SampleShipments[3] \notin Returned_

\* C17: if the page fetch or the count of a shipments query fails, the query
\* fails with the error of one of the failed operations and returns no
\* PageResult; the page fetch and the count are each issued exactly once,
\* whatever their outcome.
C17_FailedStorageFailsQuery ==
    (pageReq.phase = "done" /\ CastsToSchema(pageRes.query)) =>
        LET o == pageReq.outcome
            errors == {o.find, o.count} \ {"ok"}
        IN /\ pageRes.finds = 1
           /\ pageRes.counts = 1
           /\ errors # {} =>
                 /\ pageRes.code \in errors
                 /\ "result" \notin DOMAIN pageRes
           /\ errors = {} =>
                 /\ pageRes.code = "OK"
                 /\ pageRes.result.totalCount =
                       Len(FindAll(SampleShipments, pageRes.query))
                 /\ Len(pageRes.result.edges) <= pageRes.result.totalCount

\* C17 witness: the page fetch succeeded and the count failed, and the query
\* failed with the error of the count and returned nothing.
C17_Witness ==
    /\ pageReq.phase = "done"
    /\ pageReq.outcome.find = "ok"
    /\ pageReq.outcome.count = "E2"
    /\ pageRes.code = "E2"
    /\ pageRes.finds = 1
    /\ pageRes.counts = 1
    /\ "result" \notin DOMAIN pageRes

\* C18 as claimed: a date bound whose text is no date fails the shipments
\* query, which returns no result, instead of being dropped; a bound whose
\* text is a date is applied inclusively and independently of the other bound.
C18_InvalidDateTextFailsQuery ==
    pageReq.phase = "done" =>
        LET f == RequestFilter IN
        /\ (\E k \in DateFields : f[k].has /\ NewDate(f[k].v) = InvalidDate) =>
              /\ pageRes.code # "OK"
              /\ "result" \notin DOMAIN pageRes
        /\ (WholeResult /\ DateTextsValid(f)) =>
              \A i \in DOMAIN SampleShipments :
                 LET d == SampleShipments[i] IN
                 d \in Returned_ =>
                    \A k \in DateFields : f[k].has => DimensionHolds(f, k, d)

---------------------------------------------------------------------------
(* The stored records and the guarded resolvers: graphql/resolvers/*.ts *)

\* actualDelivery of a shipment that has none.
NoDate == 0

\* The statuses the calls below use, of the eight of ShipmentStatus.
StatusInputs == {"PENDING", "DELIVERED", "CANCELLED"}

\* Identifiers: s1 and s2 are stored at the start, s9 never is; createShipment
\* gives the n-th new document the identifier NewShipId(n).
ShipIdInputs == {"s1", "s2", "s9"}
NewShipId(n) == IF n = 1 THEN "s3" ELSE IF n = 2 THEN "s4" ELSE "s5"

\* The order in which the identifiers were created, and the unique
\* trackingNumber of each document.
IdRank == [s1 |-> 1, s2 |-> 2, s3 |-> 3, s4 |-> 4, s5 |-> 5]
TrackingOf == [s1 |-> "T1", s2 |-> "T2", s3 |-> "T3", s4 |-> "T4", s5 |-> "T5"]
TrackingInputs == {"T1", "T2", "T9"}

\* A shipment document, with the schema's defaults for what is not given.
ShipDoc(id, status, cost, by) ==
    [trackingNumber |-> TrackingOf[id], status |-> status, cost |-> cost,
     isFlagged |-> FALSE, flagReason |-> NULL, actualDelivery |-> NoDate,
     createdBy |-> by, lastUpdatedBy |-> by]

\* { $set: set } applied to a document: the fields of set replace the
\* document's, the others stay.
Merge(doc, set) ==
    [f \in DOMAIN doc |-> IF f \in DOMAIN set THEN set[f] ELSE doc[f]]

\* An empty input object.
NoFields == [f \in {} |-> NULL]

\* Model.findByIdAndUpdate / updateMany on the shipment collection.
ShipmentsUpdated(ids, set) ==
    [id \in DOMAIN shipments |->
        IF id \in ids THEN Merge(shipments[id], set) ELSE shipments[id]]

\* A defect: a delete that removes nothing.
ShipmentsWithout_kept(id) == shipments

\* Model.findByIdAndDelete.
ShipmentsWithout(id) ==
    [i \in DOMAIN shipments \ {id} |-> shipments[i]]

UserExists(id) == \E i \in DOMAIN users : users[i]._id = id

\* User.findByIdAndUpdate.
UsersUpdated(id, set) ==
    [i \in DOMAIN users |->
        IF users[i]._id = id THEN Merge(users[i], set) ELSE users[i]]

\* The stored shipments, newest first ({ createdAt: -1 }, the default sort).
NewestFirst ==
    LET n == Cardinality(DOMAIN shipments) IN
    CHOOSE q \in [1..n -> DOMAIN shipments] :
        \A i, j \in 1..n : i < j => IdRank[q[i]] > IdRank[q[j]]

\* What a resolver call ends with: its error code or OK, the storage reads
\* and writes it issued, and the collections it leaves.
OpRes(code, reads, writes, ships, usrs) ==
    [code |-> code, reads |-> reads, writes |-> writes,
     ships |-> ships, users |-> usrs]

\* The guard threw: the resolver ends there.
Denied(g) == OpRes(g.code, 0, 0, shipments, users)

(* shipmentResolvers.Query *)

shipments_(context, args) ==
    LET found == [i \in DOMAIN NewestFirst |->
                    [_id |-> IdOfRank(IdRank[NewestFirst[i]]),
                     rank |-> IdRank[NewestFirst[i]]]]
        r == shipmentsQuery(context, args, found) IN
    OpRes(r.code, r.reads, r.writes, shipments, users)

shipment(context, id) ==
    LET g == requireAuth(context) IN
    IF ~g.ok THEN Denied(g)
    ELSE IF id \notin DOMAIN shipments
    THEN OpRes("NOT_FOUND", 1, 0, shipments, users)
    ELSE OpRes("OK", 1, 0, shipments, users)

shipmentByTracking(context, trackingNumber) ==
    LET g == requireAuth(context) IN
    IF ~g.ok THEN Denied(g)
    ELSE IF ~\E id \in DOMAIN shipments :
                shipments[id].trackingNumber = trackingNumber
    THEN OpRes("NOT_FOUND", 1, 0, shipments, users)
    ELSE OpRes("OK", 1, 0, shipments, users)

shipmentStats(context) ==
    LET g == requireAuth(context) IN
    IF ~g.ok THEN Denied(g)
    ELSE OpRes("OK", 3, 0, shipments, users)

(* shipmentResolvers.Mutation *)

\* saved: whether shipment.save() passed validation and the unique index.
createShipment(context, input, saved) ==
    LET g == requireAuth(context) IN
    IF ~g.ok THEN Denied(g)
    ELSE IF ~saved THEN OpRes("INTERNAL_ERROR", 0, 1, shipments, users)
    ELSE LET id == NewShipId(created + 1)
             doc == Merge(ShipDoc(id, "PENDING", 0, g.user.userId), input)
         IN OpRes("OK", 0, 1,
                  [i \in DOMAIN shipments \cup {id} |->
                      IF i = id THEN doc ELSE shipments[i]],
                  users)

updateShipment(context, id, input) ==
    LET g == requireAuth(context) IN
    IF ~g.ok THEN Denied(g)
    ELSE LET updateData ==
                 [f \in DOMAIN input \cup {"lastUpdatedBy"} |->
                     IF f = "lastUpdatedBy" THEN g.user.userId ELSE input[f]]
         IN IF id \notin DOMAIN shipments
            THEN OpRes("NOT_FOUND", 0, 1, shipments, users)
            ELSE OpRes("OK", 0, 1, ShipmentsUpdated({id}, updateData), users)

\* A defect: the record is deleted before the role is checked.
deleteShipment_deleteFirst(context, id) ==
    LET g == requireRole(context, {"ADMIN"}) IN
    IF id \notin DOMAIN shipments
    THEN OpRes(IF g.ok THEN "NOT_FOUND" ELSE g.code, 0, 1, shipments, users)
    ELSE OpRes(g.code, 0, 1, ShipmentsWithout(id), users)

deleteShipment(context, id) ==
    LET g == requireRole(context, {"ADMIN"}) IN
    IF ~g.ok THEN Denied(g)
    ELSE IF id \notin DOMAIN shipments
    THEN OpRes("NOT_FOUND", 0, 1, shipments, users)
    ELSE OpRes("OK", 0, 1, ShipmentsWithout(id), users)

flagShipment(context, id, reason) ==
    LET g == requireAuth(context) IN
    IF ~g.ok THEN Denied(g)
    ELSE IF id \notin DOMAIN shipments
    THEN OpRes("NOT_FOUND", 0, 1, shipments, users)
    ELSE OpRes("OK", 0, 1,
               ShipmentsUpdated({id}, [isFlagged |-> TRUE, flagReason |-> reason,
                                       lastUpdatedBy |-> g.user.userId]),
               users)

unflagShipment(context, id) ==
    LET g == requireAuth(context) IN
    IF ~g.ok THEN Denied(g)
    ELSE IF id \notin DOMAIN shipments
    THEN OpRes("NOT_FOUND", 0, 1, shipments, users)
    ELSE OpRes("OK", 0, 1,
               ShipmentsUpdated({id}, [isFlagged |-> FALSE, flagReason |-> NULL,
                                       lastUpdatedBy |-> g.user.userId]),
               users)

\* A defect: every status sets the delivery time.
StatusUpdateData_always(status, userId) ==
    [status |-> status, lastUpdatedBy |-> userId, actualDelivery |-> now]

\* A defect: a status other than DELIVERED clears the delivery time.
StatusUpdateData_clears(status, userId) ==
    [status |-> status, lastUpdatedBy |-> userId,
     actualDelivery |-> IF status = "DELIVERED" THEN now ELSE NoDate]

\* updateData of updateShipmentStatus and bulkUpdateStatus.
StatusUpdateData(status, userId) ==
    IF status = "DELIVERED"
    THEN [status |-> status, lastUpdatedBy |-> userId, actualDelivery |-> now]
    ELSE [status |-> status, lastUpdatedBy |-> userId]

updateShipmentStatus(context, id, status) ==
    LET g == requireAuth(context) IN
    IF ~g.ok THEN Denied(g)
    ELSE IF id \notin DOMAIN shipments
    THEN OpRes("NOT_FOUND", 0, 1, shipments, users)
    ELSE OpRes("OK", 0, 1,
               ShipmentsUpdated({id}, StatusUpdateData(status, g.user.userId)),
               users)

bulkUpdateStatus(context, ids, status) ==
    LET g == requireRole(context, {"ADMIN"}) IN
    IF ~g.ok THEN Denied(g)
    ELSE OpRes("OK", 1, 1,
               ShipmentsUpdated(ids, StatusUpdateData(status, context.user.userId)),
               users)

(* userResolvers.Query *)

me(context) ==
    LET g == requireAuth(context) IN
    IF ~g.ok THEN Denied(g) ELSE OpRes("OK", 1, 0, shipments, users)

users_(context) ==
    LET g == requireAdmin(context) IN
    IF ~g.ok THEN Denied(g) ELSE OpRes("OK", 1, 0, shipments, users)

user(context, id) ==
    LET g == requireAdmin(context) IN
    IF ~g.ok THEN Denied(g) ELSE OpRes("OK", 1, 0, shipments, users)

(* userResolvers.Mutation *)

updateUser(context, id, input) ==
    LET g == requireAuth(context) IN
    IF ~g.ok THEN Denied(g)
    ELSE IF g.user.userId # id /\ g.user.role # "ADMIN"
    THEN OpRes("FORBIDDEN", 0, 0, shipments, users)
    ELSE IF ~UserExists(id) THEN OpRes("NOT_FOUND", 0, 1, shipments, users)
    ELSE OpRes("OK", 0, 1, shipments, UsersUpdated(id, input))

updateUserRole(context, id, role) ==
    LET g == requireAdmin(context) IN
    IF ~g.ok THEN Denied(g)
    ELSE IF ~UserExists(id) THEN OpRes("NOT_FOUND", 0, 1, shipments, users)
    ELSE OpRes("OK", 0, 1, shipments, UsersUpdated(id, [role |-> role]))

deactivateUser(context, id) ==
    LET g == requireAdmin(context) IN
    IF ~g.ok THEN Denied(g)
    ELSE IF ~UserExists(id) THEN OpRes("NOT_FOUND", 0, 1, shipments, users)
    ELSE OpRes("OK", 0, 1, shipments, UsersUpdated(id, [isActive |-> FALSE]))

(* The calls made in SpecOps *)

\* An anonymous caller, the administrator A and the employee B.
OpContexts ==
    {[user |-> NoUser],
     [user |-> [userId |-> "A", role |-> "ADMIN"]],
     [user |-> [userId |-> "B", role |-> "EMPLOYEE"]]}

CreateInputs == {[cost |-> 5], [cost |-> 5, status |-> "DELIVERED"]}
UpdateInputs == {[status |-> "DELIVERED"], [cost |-> 7],
                 [isFlagged |-> TRUE, flagReason |-> "r0"]}
UpdateUserInputs == {[firstName |-> "m"], NoFields}
BulkIdInputs == {{}, {"s1"}, {"s1", "s2"}, {"s2", "s9"}}
ShipmentsArgs == {[limit |-> Undef, first |-> Undef, page |-> Undef],
                  [limit |-> Num(1), first |-> Undef, page |-> Num(2)]}

\* The stored records at the start: the administrator A and the employee B;
\* shipment s1 pending, and possibly shipment s2 delivered at time 1.
InitOps ==
    /\ users = <<UserDoc("A", "ADMIN"), UserDoc("B", "EMPLOYEE")>>
    /\ cache = [k \in UserIds |-> 0]
    /\ promises = <<>>
    /\ batches = <<>>
    /\ calls = <<>>
    /\ fetches = <<>>
    /\ tick = 0
    /\ guard = IdleGuard
    /\ pageReq = IdlePageReq
    /\ pageRes = IdlePageRes
    /\ shipments \in
         {[id \in {"s1"} |-> ShipDoc(id, "PENDING", 5, "A")],
          [id \in {"s1", "s2"} |->
              IF id = "s1" THEN ShipDoc(id, "PENDING", 5, "A")
              ELSE [ShipDoc(id, "DELIVERED", 9, "B") EXCEPT !.actualDelivery = 1]]}
    /\ now = 2
    /\ opCount = 0
    /\ created = 0
    /\ lastOp = IdleLastOp
    /\ IdleServer

\* One resolver call from its guard to its end: the collections become what
\* it leaves, and the call and its outcome are recorded.
Apply(op, context, target, r) ==
    /\ opCount < MaxOps
    /\ opCount' = opCount + 1
    /\ now' = now + 1
    /\ shipments' = r.ships
    /\ users' = r.users
    /\ created' = IF op = "createShipment" /\ r.code = "OK"
                  THEN created + 1 ELSE created
    /\ lastOp' = [op |-> op, context |-> context, target |-> target,
                  code |-> r.code, reads |-> r.reads, writes |-> r.writes]
    /\ UNCHANGED <<cache, promises, batches, calls, fetches, tick, guard,
                   pageReq, pageRes, isConnected, connects, requests, loaders>>

ShipmentsStep ==
    \E c \in OpContexts, a \in ShipmentsArgs :
        Apply("shipments", c, "none", shipments_(c, a))
ShipmentStep ==
    \E c \in OpContexts, id \in ShipIdInputs :
        Apply("shipment", c, id, shipment(c, id))
ShipmentByTrackingStep ==
    \E c \in OpContexts, t \in TrackingInputs :
        Apply("shipmentByTracking", c, t, shipmentByTracking(c, t))
ShipmentStatsStep ==
    \E c \in OpContexts : Apply("shipmentStats", c, "none", shipmentStats(c))
CreateShipmentStep ==
    \E c \in OpContexts, in \in CreateInputs, saved \in BOOLEAN :
        /\ created < MaxCreate
        /\ Apply("createShipment", c, NewShipId(created + 1),
                 createShipment(c, in, saved))
UpdateShipmentStep ==
    \E c \in OpContexts, id \in ShipIdInputs, in \in UpdateInputs :
        Apply("updateShipment", c, id, updateShipment(c, id, in))
DeleteShipmentStep ==
    \E c \in OpContexts, id \in ShipIdInputs :
        Apply("deleteShipment", c, id, deleteShipment(c, id))
FlagShipmentStep ==
    \E c \in OpContexts, id \in ShipIdInputs :
        Apply("flagShipment", c, id, flagShipment(c, id, "r1"))
UnflagShipmentStep ==
    \E c \in OpContexts, id \in ShipIdInputs :
        Apply("unflagShipment", c, id, unflagShipment(c, id))
UpdateShipmentStatusStep ==
    \E c \in OpContexts, id \in ShipIdInputs, st \in StatusInputs :
        Apply("updateShipmentStatus", c, [id |-> id, status |-> st],
              updateShipmentStatus(c, id, st))
BulkUpdateStatusStep ==
    \E c \in OpContexts, ids \in BulkIdInputs, st \in StatusInputs :
        Apply("bulkUpdateStatus", c, [ids |-> ids, status |-> st],
              bulkUpdateStatus(c, ids, st))
MeStep ==
    \E c \in OpContexts : Apply("me", c, "none", me(c))
UsersStep ==
    \E c \in OpContexts : Apply("users", c, "none", users_(c))
UserStep ==
    \E c \in OpContexts, id \in UserIds : Apply("user", c, id, user(c, id))
UpdateUserStep ==
    \E c \in OpContexts, id \in UserIds, in \in UpdateUserInputs :
        Apply("updateUser", c, id, updateUser(c, id, in))
UpdateUserRoleStep ==
    \E c \in OpContexts, id \in UserIds, role \in Roles :
        Apply("updateUserRole", c, id, updateUserRole(c, id, role))
DeactivateUserStep ==
    \E c \in OpContexts, id \in UserIds :
        Apply("deactivateUser", c, id, deactivateUser(c, id))

NextOps ==
    \/ ShipmentsStep \/ ShipmentStep \/ ShipmentByTrackingStep
    \/ ShipmentStatsStep \/ CreateShipmentStep \/ UpdateShipmentStep
    \/ DeleteShipmentStep \/ FlagShipmentStep \/ UnflagShipmentStep
    \/ UpdateShipmentStatusStep \/ BulkUpdateStatusStep
    \/ MeStep \/ UsersStep \/ UserStep
    \/ UpdateUserStep \/ UpdateUserRoleStep \/ DeactivateUserStep

SpecOps == InitOps /\ [][NextOps]_vars

---------------------------------------------------------------------------
(* Claims about the guarded resolvers, checked under SpecOps *)

AuthErrors == {"UNAUTHENTICATED", "FORBIDDEN"}

\* C5: a guarded operation whose authorization check fails ends with that
\* error before any storage access. In every call of the seventeen guarded
\* resolvers: an anonymous caller is refused with UNAUTHENTICATED, and a call
\* that ends with UNAUTHENTICATED or FORBIDDEN has issued no storage read and
\* no storage write and leaves every stored shipment and user as it was.
C5_DeniedBeforeStorage ==
    [][/\ lastOp'.context.user = NoUser => lastOp'.code = "UNAUTHENTICATED"
       /\ lastOp'.code \in AuthErrors =>
             /\ lastOp'.reads = 0
             /\ lastOp'.writes = 0
             /\ shipments' = shipments
             /\ users' = users]_vars

\* C5 witness: the employee's deleteShipment of a stored shipment was refused
\* with FORBIDDEN, no storage access made and the shipment still stored.
C5_Witness ==
    /\ lastOp.code = "FORBIDDEN"
    /\ lastOp.op = "deleteShipment"
    /\ lastOp.context.user.role = "EMPLOYEE"
    /\ lastOp.target = "s1"
    /\ lastOp.reads = 0 /\ lastOp.writes = 0
    /\ "s1" \in DOMAIN shipments

\* C16: after an administrator's bulkUpdateStatus(ids, DELIVERED), every
\* stored shipment whose identifier is in ids has status DELIVERED,
\* actualDelivery set to the time of the call and lastUpdatedBy set to the
\* caller, its other fields as before; a shipment whose identifier is not in
\* ids is unchanged; a status other than DELIVERED is set in the same way and
\* leaves actualDelivery as it was.  No shipment is added or removed and no
\* user changes.
C16_BulkUpdateStatusEffect ==
    [][(lastOp'.op = "bulkUpdateStatus" /\ lastOp'.code = "OK") =>
          LET ids == lastOp'.target.ids
              st == lastOp'.target.status
              caller == lastOp'.context.user
          IN /\ caller.role = "ADMIN"
             /\ DOMAIN shipments' = DOMAIN shipments
             /\ users' = users
             /\ \A id \in DOMAIN shipments :
                   IF id \in ids
                   THEN /\ shipments'[id].status = st
                        /\ shipments'[id].lastUpdatedBy = caller.userId
                        /\ IF st = "DELIVERED"
                           THEN /\ shipments'[id].actualDelivery = now
                                /\ shipments'[id].actualDelivery # NoDate
                           ELSE shipments'[id].actualDelivery
                                   = shipments[id].actualDelivery
                        /\ \A f \in DOMAIN shipments[id] \
                                 {"status", "lastUpdatedBy", "actualDelivery"} :
                              shipments'[id][f] = shipments[id][f]
                   ELSE shipments'[id] = shipments[id]]_vars

\* C16 witness: the administrator's bulkUpdateStatus({s1, s2}, DELIVERED) has
\* completed, and both shipments are delivered at the time of the call and
\* last updated by the administrator.
C16_Witness ==
    /\ lastOp.code = "OK"
    /\ lastOp.op = "bulkUpdateStatus"
    /\ lastOp.target.ids = {"s1", "s2"}
    /\ lastOp.target.status = "DELIVERED"
    /\ \A id \in {"s1", "s2"} :
          /\ id \in DOMAIN shipments
          /\ shipments[id].status = "DELIVERED"
          /\ shipments[id].actualDelivery = now - 1
          /\ shipments[id].lastUpdatedBy = "A"

AdminOnlyOps == {"deleteShipment", "bulkUpdateStatus", "users", "user",
                 "updateUser", "updateUserRole", "deactivateUser"}

\* C7 as claimed: delete, bulk update and user management are admin-only. A
\* caller of role EMPLOYEE is refused with FORBIDDEN by deleteShipment,
\* bulkUpdateStatus, users, user, updateUser, updateUserRole and
\* deactivateUser, and the call changes nothing; no other operation refuses
\* an authenticated caller of either role.
C7_AdminOnlyOperations ==
    [][/\ (lastOp'.op \in AdminOnlyOps /\ lastOp'.context.user.role = "EMPLOYEE")
             => /\ lastOp'.code = "FORBIDDEN"
                /\ shipments' = shipments
                /\ users' = users
       /\ (lastOp'.op \notin AdminOnlyOps /\ lastOp'.context.user # NoUser)
             => lastOp'.code \notin AuthErrors]_vars

(***************************************************************************)
(* The request handler of api/index.ts: the lazy storage connection and    *)
(* the context built for each request.  A step is the code between two     *)
(* awaits; requests interleave at every await.                             *)
(***************************************************************************)

\* The identifiers the resolvers of a request load.
LoadedIds == {"A", "B"}

\* A loader just constructed: nothing cached.  An entry of the cache names
\* the request whose load had the value fetched (0: no entry).
NewLoader == [cache |-> [k \in LoadedIds |-> 0]]

\* What a request holds before its context is built.
NoLoader == 0

\* A single loader made once and handed to every context.
createLoaders_shared(ls) == IF ls = <<>> THEN <<NewLoader>> ELSE ls

\* createLoaders(): a new DataLoader on every call; the caller holds the
\* loader made last.
createLoaders(ls) == Append(ls, NewLoader)

\* connectDB up to its await: nothing to do once the flag is set, otherwise
\* mongoose.connect is called.
connectDB_calls(flag) == IF flag THEN 0 ELSE 1

otherThanServer == <<users, cache, promises, batches, calls, fetches, tick,
                     guard, pageReq, pageRes, shipments, now, opCount,
                     created, lastOp>>

\* The process after the module was loaded: the flag unset, no request yet.
InitServer ==
    /\ IdleLoader
    /\ guard = IdleGuard
    /\ pageReq = IdlePageReq
    /\ pageRes = IdlePageRes
    /\ shipments = <<>>
    /\ now = 0
    /\ opCount = 0
    /\ created = 0
    /\ lastOp = IdleLastOp
    /\ isConnected = FALSE
    /\ connects = 0
    /\ requests = <<>>
    /\ loaders = <<>>

\* A request reaches the handler, which runs connectDB up to its first
\* await: with the flag set the request goes on, otherwise a connect is
\* started and the request waits for it.
RequestArrives ==
    /\ Len(requests) < MaxRequests
    /\ connects' = connects + connectDB_calls(isConnected)
    /\ requests' = Append(requests,
                     [pc |-> IF connectDB_calls(isConnected) = 0
                                THEN "started" ELSE "connecting",
                      loader |-> NoLoader,
                      loads |-> <<>>])
    /\ UNCHANGED <<isConnected, loaders>>
    /\ UNCHANGED otherThanServer

\* The connect a request waits for succeeds: connectDB sets the flag.
ConnectSucceeds(r) ==
    /\ requests[r].pc = "connecting"
    /\ isConnected' = TRUE
    /\ requests' = [requests EXCEPT ![r].pc = "started"]
    /\ UNCHANGED <<connects, loaders>>
    /\ UNCHANGED otherThanServer

\* The connect a request waits for fails: connectDB rethrows and the handler
\* ends with that error.
ConnectFails(r) ==
    /\ requests[r].pc = "connecting"
    /\ requests' = [requests EXCEPT ![r].pc = "failed"]
    /\ UNCHANGED <<isConnected, connects, loaders>>
    /\ UNCHANGED otherThanServer

\* The context function of the request: loaders = createLoaders().
CreateContext(r) ==
    /\ requests[r].pc = "started"
    /\ loaders' = createLoaders(loaders)
    /\ requests' = [requests EXCEPT ![r].pc = "resolving",
                                    ![r].loader = Len(loaders')]
    /\ UNCHANGED <<isConnected, connects>>
    /\ UNCHANGED otherThanServer

\* A field resolver of the request calls context.loaders.userLoader.load(k):
\* a cached key is answered from the loader's cache, any other key is
\* fetched and cached.
RequestLoad(r, k) ==
    /\ requests[r].pc = "resolving"
    /\ Len(requests[r].loads) < MaxReqLoads
    /\ LET l == requests[r].loader
           cached == loaders[l].cache[k]
       IN  IF cached # 0
           THEN /\ requests' = [requests EXCEPT ![r].loads =
                      Append(@, [key |-> k, hit |-> TRUE, from |-> cached])]
                /\ UNCHANGED loaders
           ELSE /\ requests' = [requests EXCEPT ![r].loads =
                      Append(@, [key |-> k, hit |-> FALSE, from |-> r])]
                /\ loaders' = [loaders EXCEPT ![l].cache[k] = r]
    /\ UNCHANGED <<isConnected, connects>>
    /\ UNCHANGED otherThanServer

\* The response of the request is sent; its context is not used again.
Respond(r) ==
    /\ requests[r].pc = "resolving"
    /\ requests' = [requests EXCEPT ![r].pc = "done"]
    /\ UNCHANGED <<isConnected, connects, loaders>>
    /\ UNCHANGED otherThanServer

ConnectSucceedsStep == \E r \in DOMAIN requests : ConnectSucceeds(r)
ConnectFailsStep == \E r \in DOMAIN requests : ConnectFails(r)
CreateContextStep == \E r \in DOMAIN requests : CreateContext(r)
RequestLoadStep ==
    \E r \in DOMAIN requests : \E k \in LoadedIds : RequestLoad(r, k)
RespondStep == \E r \in DOMAIN requests : Respond(r)

NextServer ==
    \/ RequestArrives
    \/ ConnectSucceedsStep
    \/ ConnectFailsStep
    \/ CreateContextStep
    \/ RequestLoadStep
    \/ RespondStep

SpecServer == InitServer /\ [][NextServer]_vars

\* The requests that have a context.
WithContext == {r \in DOMAIN requests : requests[r].loader # NoLoader}

\* The loads of request r of key k that the loader answered with a fetch.
OwnFetches(r, k) ==
    {i \in DOMAIN requests[r].loads :
        /\ requests[r].loads[i].key = k
        /\ ~requests[r].loads[i].hit}

\* C21: every request has a loader of its own.  No two contexts hold the
\* same loader; a load answered from the cache is answered with a value the
\* same request had fetched; a request that loads a key has issued a fetch
\* of that key itself, whatever the other requests loaded; and every entry
\* of a loader was put there by the one request that holds it, so no loader
\* carries anything from one request to another.
C21_LoaderPerRequest ==
    /\ \A r1, r2 \in WithContext :
          requests[r1].loader = requests[r2].loader => r1 = r2
    /\ \A r \in WithContext :
          /\ requests[r].loader \in DOMAIN loaders
          /\ \A i \in DOMAIN requests[r].loads :
                LET ld == requests[r].loads[i]
                IN  /\ ld.from = r
                    /\ OwnFetches(r, ld.key) # {}
                    /\ ld.hit => \E j \in OwnFetches(r, ld.key) : j < i
          /\ \A k \in LoadedIds :
                loaders[requests[r].loader].cache[k] \in {0, r}
    /\ \A r \in DOMAIN requests \ WithContext : requests[r].loads = <<>>
    /\ Len(loaders) = Cardinality(WithContext)

\* C21 happens: two requests are resolved at the same time; the first
\* fetched a key and then had it from its cache, the second loaded the same
\* key afterwards and fetched it again.
C21_Witness ==
    /\ Len(requests) >= 2
    /\ requests[1].pc = "resolving"
    /\ requests[2].pc = "resolving"
    /\ Len(requests[1].loads) = 2
    /\ requests[1].loads[1] = [key |-> "A", hit |-> FALSE, from |-> 1]
    /\ requests[1].loads[2] = [key |-> "A", hit |-> TRUE, from |-> 1]
    /\ Len(requests[2].loads) = 1
    /\ requests[2].loads[1] = [key |-> "A", hit |-> FALSE, from |-> 2]

\* C22 as claimed: under any interleaving of requests the connection is
\* initiated at most once per process.
C22_ConnectInitiatedAtMostOnce == connects <= 1

---------------------------------------------------------------------------
(* The page a shipments query returns, checked under SpecQuery             *)

\* The size and the page the arguments of the request stand for.
EffectiveSize ==
    LET a == pageReq.args
        given == IF a.limit # Undef THEN a.limit ELSE a.first
    IN IF given = Undef \/ given[1] = 0 THEN DEFAULT_PAGE_SIZE
       ELSE IF given[1] < 1 THEN 1
       ELSE IF given[1] > MAX_PAGE_SIZE THEN MAX_PAGE_SIZE
       ELSE given[1]
EffectivePage ==
    LET p == pageReq.args.page
    IN IF p = Undef \/ p[1] < 1 THEN 1 ELSE p[1]

\* The stored shipments matching the filter of the request.
MatchingShipments ==
    {i \in DOMAIN SampleShipments : Matches(SampleShipments[i], pageRes.query)}

\* Shipment a comes strictly before shipment b in the requested sort order.
Precedes(a, b) ==
    LET o == SortOption(pageReq.args.sort)
    IN IF o.direction = 1 THEN Before(a, b, o.field) ELSE Before(b, a, o.field)

\* C23: with no write in progress, a shipments query that succeeds returns
\* the records at positions offset + 1 .. offset + size of the matching
\* records in the requested sort order, offset = (effective page - 1) *
\* effective size.  It returns as many edges as those positions hold, at most
\* size; every edge is a stored record matching the filter; no edge comes
\* before its predecessor in the sort order; the edge at position n has at
\* most n - 1 matching records strictly before it and at most total - n
\* strictly after it; totalCount is the number of matching records; and the
\* arguments after, before and last change nothing of the outcome.
C23_EdgesAreTheRequestedWindow ==
    (pageReq.phase = "done" /\ pageRes.code = "OK") =>
        LET size == EffectiveSize
            offset == (EffectivePage - 1) * size
            total == Cardinality(MatchingShipments)
            edges == pageRes.result.edges
            held == IF total > offset THEN Min(size, total - offset) ELSE 0
        IN /\ Len(edges) = held
           /\ Len(edges) <= size
           /\ pageRes.result.totalCount = total
           /\ \A n \in DOMAIN edges :
                 /\ \E i \in MatchingShipments : SampleShipments[i] = edges[n].node
                 /\ n > 1 => ~Precedes(edges[n].node, edges[n - 1].node)
                 /\ Cardinality({i \in MatchingShipments :
                        Precedes(SampleShipments[i], edges[n].node)})
                      <= offset + n - 1
                 /\ Cardinality({i \in MatchingShipments :
                        Precedes(edges[n].node, SampleShipments[i])})
                      <= total - (offset + n)
           /\ \A n, m \in DOMAIN edges : edges[n].node = edges[m].node => n = m
           /\ pageRes = shipmentsResolver(
                            [user |-> [userId |-> "B", role |-> "EMPLOYEE"]],
                            [pageReq.args EXCEPT !.after = NoCursorArgs.after,
                                                 !.before = NoCursorArgs.before,
                                                 !.last = NoCursorArgs.last],
                            SampleShipments, pageReq.outcome)

\* C23 happens: the second page of two of the shipments of cost 99 and more,
\* by falling cost, asked for with a before cursor and last: of the costs
\* 501, 500, 100 and 99 the page holds 100 and 99, and the count is 4.
C23_Witness ==
    /\ pageReq.phase = "done"
    /\ pageRes.code = "OK"
    /\ pageReq.args.page = Num(2)
    /\ pageReq.args.limit = Num(2)
    /\ pageReq.args.filter = Given([EmptyFilter EXCEPT !.minCost = Given(99)])
    /\ pageReq.args.sort = Given([field |-> "COST", order |-> "DESC"])
    /\ pageReq.args.before.has
    /\ pageReq.args.last = Num(1)
    /\ Len(pageRes.result.edges) = 2
    /\ pageRes.result.edges[1].node = SampleShipments[4]
    /\ pageRes.result.edges[2].node = SampleShipments[3]
    /\ pageRes.result.totalCount = 4

---------------------------------------------------------------------------
(* Missing records and the status update, checked under SpecOps *)

\* The operations that address one shipment by its identifier.
ByIdOps == {"shipment", "updateShipment", "deleteShipment", "flagShipment",
            "unflagShipment", "updateShipmentStatus"}

\* The identifier a recorded call addressed.
TargetId(o) == IF o.op = "updateShipmentStatus" THEN o.target.id ELSE o.target

\* The caller of a recorded call passes the guard of the operation.
Authorized(o) ==
    /\ o.context.user # NoUser
    /\ o.op = "deleteShipment" => o.context.user.role = "ADMIN"

\* A record of the collection has the tracking key.
HasTracking(ships, key) ==
    \E id \in DOMAIN ships : ships[id].trackingNumber = key

====
